---- MODULE Spec2Model ----
(***************************************************************************)
(* Plugin host runtime (QtPluginFramework/PluginCore): PluginMetadata,     *)
(* PluginManager and the handler table of PluginCommunication.             *)
(*                                                                         *)
(* Every public PluginManager operation runs under the manager's lock, so  *)
(* one call is one step.  An operation is an operator from the manager's   *)
(* data (a record m) to the SET of its possible results: the plugin hooks  *)
(* and the QPluginLoader are outside code, and each invocation may produce *)
(* any of its outcomes.  The record carries a log of the hook              *)
(* invocations, loader calls and signals of the call, each with the state  *)
(* map at that moment, so that orderings inside one call can be stated.    *)
(*                                                                         *)
(* Spec is the manager on its own, BusSpec the message bus on its own      *)
(* under any of the permission tables, UnloadSpec the manager unloading    *)
(* plugins that registered handlers on the bus.  LifecycleSpec is the      *)
(* manager's load, unload, initialize, activate and deactivate operations  *)
(* without shutdown and commands.  SortSpec applies the dependency sort to *)
(* registries of any shape, cycles included.  MetadataSpec is the manager  *)
(* on descriptors whose required fields are not strings.  On the bus a     *)
(* handler is plugin code: it returns, throws, or first calls the bus      *)
(* again, whose lock is re-entrant.                                        *)
(*                                                                         *)
(* ThreadSpec is the manager called from two threads.  There a call is     *)
(* several steps: it takes the lock, takes it again in the first public    *)
(* operation it calls itself, reads the registry and runs its body, and    *)
(* writes the registry as it unlocks.  PluginManager.h declares the lock   *)
(* as QMutex while the operations lock it with a recursive locker, so the  *)
(* kind of the lock is either; the one-thread specifications take the      *)
(* re-entrant lock, under which a call never waits for itself.             *)
(*                                                                         *)
(* DispatchSpec is the manager and the bus called from two threads, each   *)
(* with its own lock: one thread unloads a plugin, the other sends or      *)
(* broadcasts a message whose handler calls the manager.                   *)
(***************************************************************************)
EXTENDS Integers, Sequences, FiniteSets, TLC

\* ------------------------------------------------------------------ bounds
\* Deepest nesting of manager calls that is followed; a call chain that
\* nests deeper is unbounded recursion (only a dependency cycle does it).
MaxDepth == 7

\* Longest list of dependencies that a descriptor handed to the sort declares
MaxDeclared == 2

\* Longest list of ids handed to the sort
MaxInput == 2

\* ------------------------------------------------------------- plugin ids
Ids == {"A", "B", "C"}

\* QDir::entryList order of the metadata files / QMap key order
IdOrder == <<"A", "B", "C">>

\* ------------------------------------------------------------ JSON values
JStr(s) == [t |-> "string", v |-> s]
JNum(n) == [t |-> "number", v |-> n]
JArr(a) == [t |-> "array", v |-> a]
JNull == [t |-> "null", v |-> 0]
JObj(o) == [t |-> "object", v |-> o]

\* QJsonValue::toString(): the string, or the default for any other type
toString(val, dflt) == IF val.t = "string" THEN val.v ELSE dflt

\* QJsonValue::toArray(): the array, or an empty one
toArray(val) == IF val.t = "array" THEN val.v ELSE <<>>

\* QJsonObject::contains / value (value of a missing key is Undefined)
contains(obj, key) == key \in DOMAIN obj

value(obj, key) == IF key \in DOMAIN obj THEN obj[key] ELSE [t |-> "undefined", v |-> 0]

\* --------------------------------------------------------- QVersionNumber
\* A version string is a sequence of characters.
DigitVal(c) ==
    CASE c = "0" -> 0 [] c = "1" -> 1 [] c = "2" -> 2 [] c = "3" -> 3
      [] c = "4" -> 4 [] c = "5" -> 5 [] c = "6" -> 6 [] c = "7" -> 7
      [] c = "8" -> 8 [] c = "9" -> 9 [] OTHER -> -1

IsDigit(c) == DigitVal(c) >= 0

RECURSIVE ParseSegments(_, _, _, _, _)
ParseSegments(s, i, acc, cur, inNum) ==
    IF i > Len(s)
    THEN IF inNum THEN Append(acc, cur) ELSE acc
    ELSE IF IsDigit(s[i])
         THEN ParseSegments(s, i + 1, acc, (IF inNum THEN cur * 10 ELSE 0) + DigitVal(s[i]), TRUE)
         ELSE IF s[i] = "." /\ inNum /\ i < Len(s) /\ IsDigit(s[i + 1])
              THEN ParseSegments(s, i + 1, Append(acc, cur), 0, FALSE)
              ELSE IF inNum THEN Append(acc, cur) ELSE acc

\* QVersionNumber::fromString: the leading dot-separated run of numbers
fromString(s) == ParseSegments(s, 1, <<>>, 0, FALSE)

Min2(a, b) == IF a < b THEN a ELSE b

RECURSIVE CompareFrom(_, _, _)
CompareFrom(v1, v2, i) ==
    IF i > Min2(Len(v1), Len(v2))
    THEN IF Len(v1) > Len(v2) THEN (IF v1[i] # 0 THEN v1[i] ELSE 1)
         ELSE IF Len(v2) > Len(v1) THEN (IF v2[i] # 0 THEN -v2[i] ELSE -1)
         ELSE 0
    ELSE IF v1[i] # v2[i] THEN v1[i] - v2[i] ELSE CompareFrom(v1, v2, i + 1)

\* QVersionNumber::compare
compare(v1, v2) == CompareFrom(v1, v2, 1)

\* --------------------------------------------------------- PluginMetadata
DefaultMinFrameworkVersion == <<"1", ".", "0", ".", "0">>

\* the running framework version, m_frameworkVersion
m_frameworkVersion == <<"1", ".", "0", ".", "0">>

\* PluginMetadata(): an invalid, empty metadata object
InvalidMetadata == [m_metadata |-> <<>>, m_isValid |-> FALSE]

RequiredFieldsPresent(obj) ==
    /\ DOMAIN obj # {}
    /\ contains(obj, "id")
    /\ contains(obj, "name")
    /\ contains(obj, "version")
    /\ contains(obj, "vendor")

\* PluginMetadata::loadFromFile + loadFromString on the content of a file
loadFromFile(file) ==
    IF file.t # "object"
    THEN InvalidMetadata
    ELSE [m_metadata |-> file.v, m_isValid |-> RequiredFieldsPresent(file.v)]

getPluginId(md) == toString(value(md.m_metadata, "id"), "")

getPluginDependencies(md) ==
    LET depsArray == toArray(value(md.m_metadata, "dependencies"))
    IN  [i \in 1..Len(depsArray) |-> toString(depsArray[i], "")]

getMinFrameworkVersion(md) == toString(value(md.m_metadata, "minFrameworkVersion"), DefaultMinFrameworkVersion)

\* variant: the version bound is not compared
isCompatibleWithFramework_Unchecked(md, frameworkVersion) == md.m_isValid

isCompatibleWithFramework(md, frameworkVersion) ==
    IF ~md.m_isValid
    THEN FALSE
    ELSE compare(fromString(frameworkVersion), fromString(getMinFrameworkVersion(md))) >= 0

SeqContains(s, x) == \E i \in 1..Len(s) : s[i] = x

dependsOn(md, pluginId) == SeqContains(getPluginDependencies(md), pluginId)

\* ------------------------------------------------ metadata directories
\* A metadata directory holds at most one file <id>.json per plugin id.
NoFile == [t |-> "nofile", v |-> <<>>]

Garbage == [t |-> "garbage", v |-> <<>>]

JsonFile(obj) == [t |-> "object", v |-> obj]

StrArr(ids) == JArr([i \in 1..Len(ids) |-> JStr(ids[i])])

V100 == <<"1", ".", "0", ".", "0">>

V99 == <<"9", "9", ".", "0", ".", "0">>

V09 == <<"0", ".", "9">>

\* a complete descriptor without minFrameworkVersion
Descriptor(id, deps) ==
    [id |-> JStr(id), name |-> JStr(id), version |-> JStr(V100),
     vendor |-> JStr("vendor"), dependencies |-> StrArr(deps)]

\* a complete descriptor with minFrameworkVersion
DescriptorMin(id, deps, minv) ==
    [id |-> JStr(id), name |-> JStr(id), version |-> JStr(V100),
     vendor |-> JStr("vendor"), dependencies |-> StrArr(deps),
     minFrameworkVersion |-> JStr(minv)]

\* a descriptor without the vendor field
DescriptorNoVendor(id) ==
    [id |-> JStr(id), name |-> JStr(id), version |-> JStr(V100)]

DirNames == {"chain", "fork", "join", "missing", "incompatible", "cyclic"}

\* the JSON values that are not strings
NonStrings == [number |-> JNum(1), null |-> JNull, object |-> JObj(<<>>), array |-> JArr(<<>>)]

\* directories in which the descriptor of A has one required field that is
\* not a string: the name of the directory, the field and the type
TypedDirs ==
    [idNumber |-> <<"id", "number">>,
     idNull |-> <<"id", "null">>,
     idObject |-> <<"id", "object">>,
     idArray |-> <<"id", "array">>,
     nameNumber |-> <<"name", "number">>,
     nameNull |-> <<"name", "null">>,
     nameObject |-> <<"name", "object">>,
     nameArray |-> <<"name", "array">>,
     versionNumber |-> <<"version", "number">>,
     versionNull |-> <<"version", "null">>,
     versionObject |-> <<"version", "object">>,
     versionArray |-> <<"version", "array">>,
     vendorNumber |-> <<"vendor", "number">>,
     vendorNull |-> <<"vendor", "null">>,
     vendorObject |-> <<"vendor", "object">>,
     vendorArray |-> <<"vendor", "array">>]

\* a complete descriptor whose field key holds a value of type type
DescriptorTyped(id, key, type) == [Descriptor(id, <<>>) EXCEPT ![key] = NonStrings[type]]

DirContents(dir) ==
    CASE dir = "chain" ->
           [A |-> JsonFile(Descriptor("A", <<>>)),
            B |-> JsonFile(Descriptor("B", <<"A">>)),
            C |-> JsonFile(Descriptor("C", <<"B">>))]
      [] dir = "fork" ->
           [A |-> JsonFile(DescriptorMin("A", <<>>, V09)),
            B |-> JsonFile(Descriptor("B", <<"A">>)),
            C |-> JsonFile(Descriptor("C", <<"A">>))]
      [] dir = "join" ->
           [A |-> JsonFile(Descriptor("A", <<>>)),
            B |-> JsonFile(DescriptorMin("B", <<>>, V100)),
            C |-> JsonFile(Descriptor("C", <<"A", "B">>))]
      [] dir = "missing" ->
           [A |-> JsonFile(Descriptor("A", <<"C">>)),
            B |-> JsonFile(DescriptorNoVendor("B")),
            C |-> NoFile]
      [] dir = "incompatible" ->
           [A |-> JsonFile(DescriptorMin("A", <<>>, V99)),
            B |-> JsonFile(Descriptor("B", <<"A">>)),
            C |-> JsonFile(Descriptor("A", <<>>))]
      [] dir = "cyclic" ->
           [A |-> JsonFile(Descriptor("A", <<"B">>)),
            B |-> JsonFile(Descriptor("B", <<"A">>)),
            C |-> JsonFile(Descriptor("C", <<"C">>))]
      [] dir \in DOMAIN TypedDirs ->
           [A |-> JsonFile(DescriptorTyped("A", TypedDirs[dir][1], TypedDirs[dir][2])),
            B |-> JsonFile(Descriptor("B", <<"A">>)),
            C |-> NoFile]
      [] OTHER ->
           [A |-> NoFile, B |-> NoFile, C |-> NoFile]

FileOf(dir, pluginId) ==
    IF pluginId \in Ids THEN DirContents(dir)[pluginId] ELSE NoFile

\* the dependencies the descriptor file of a plugin declares
DeclaredDeps(dir, pluginId) == getPluginDependencies(loadFromFile(FileOf(dir, pluginId)))

\* ------------------------------------------------------------------ state
PluginState == {"NotLoaded", "Loaded", "Initialized", "Active", "Inactive", "Failed"}

\* what a plugin hook can throw: the three catch clauses of the manager
ThrowKinds == {"PluginException", "std::exception", "unknown"}

\* what one invocation of a hook whose exceptions are caught by kind can do
HookOutcomes == {"true", "false"} \cup ThrowKinds

\* the same for a call site that treats everything thrown alike
PlainOutcomes == {"true", "false", "throws"}

\* what one attempt to load the module of a plugin can do
LoadOutcomes == {"ok", "notfound", "loadfail", "noinstance", "notIPlugin"}

\* QPluginLoader::unload
UnloadOutcomes == {"ok", "fail"}

VARIABLES
    m_initialized,      \* PluginManager::m_initialized
    m_metadataDir,      \* PluginManager::m_metadataDir (name of the directory)
    m_pluginMetadata,   \* PluginManager::m_pluginMetadata : id -> PluginMetadata
    m_plugins,          \* key set of PluginManager::m_plugins
    m_pluginLoaders,    \* key set of PluginManager::m_pluginLoaders
    m_pluginStates,     \* PluginManager::m_pluginStates (NotLoaded when absent)
    busInitialized,     \* PluginCommunication::m_initialized
    m_handlers,         \* PluginCommunication::m_handlers : key -> handler
    m_pluginPermissions,\* PermissionManager::m_pluginPermissions : id -> permissions
    m_mutex,            \* PluginManager::m_mutex: its kind, its owner, how often locked
    busMutex,           \* PluginCommunication::m_mutex, a QRecursiveMutex
    threads,            \* where each calling thread is inside its public call
    crashed,            \* the process died inside the last call
    lastCall,           \* the last public call: <<operation, argument>>
    lastRet,            \* what it returned ("void" when nothing)
    lastFound,          \* the id list a scanForPlugins call returned
    log                 \* hook invocations, loader calls and signals of that call

vars == <<m_initialized, m_metadataDir, m_pluginMetadata, m_plugins, m_pluginLoaders,
          m_pluginStates, busInitialized, m_handlers, m_pluginPermissions, m_mutex, busMutex,
          threads,
          crashed, lastCall, lastRet, lastFound, log>>

\* the manager's and the bus's data as one record, with an empty log
Machine ==
    [m_initialized |-> m_initialized, m_metadataDir |-> m_metadataDir,
     m_pluginMetadata |-> m_pluginMetadata, m_plugins |-> m_plugins,
     m_pluginLoaders |-> m_pluginLoaders, m_pluginStates |-> m_pluginStates,
     busInitialized |-> busInitialized, m_handlers |-> m_handlers,
     m_pluginPermissions |-> m_pluginPermissions, log |-> <<>>]

Result(m, ret) == [m |-> m, ret |-> ret]

LogEntry(m, kind, name, id, out, arg) ==
    [m EXCEPT !.log = Append(@, [kind |-> kind, name |-> name, id |-> id, out |-> out,
                                 arg |-> arg, st |-> m.m_pluginStates, loaded |-> m.m_plugins])]

\* emit <signal>(id, message)
Emit(m, signal, id, msg, arg) == LogEntry(m, "signal", signal, id, msg, arg)

SetState(m, id, state) == [m EXCEPT !.m_pluginStates[id] = state]

StateOf(m, id) == IF id \in DOMAIN m.m_pluginStates THEN m.m_pluginStates[id] ELSE "NotLoaded"

\* m_pluginStates[id] = Failed; emit pluginFailed(id, msg + arg); return false
Fail(m, id, msg, arg) == Result(Emit(SetState(m, id, "Failed"), "pluginFailed", id, msg, arg), "false")

PutMetadata(map, id, md) == [x \in DOMAIN map \cup {id} |-> IF x = id THEN md ELSE map[x]]

MetaOf(m, id) == IF id \in DOMAIN m.m_pluginMetadata THEN m.m_pluginMetadata[id] ELSE InvalidMetadata

\* the ids of a set in QMap key order
RECURSIVE KeysFrom(_, _)
KeysFrom(S, i) ==
    IF i > Len(IdOrder) THEN <<>>
    ELSE (IF IdOrder[i] \in S THEN <<IdOrder[i]>> ELSE <<>>) \o KeysFrom(S, i + 1)

Keys(S) == KeysFrom(S, 1)

isPluginLoaded(m, pluginId) == m.m_initialized /\ pluginId \in m.m_plugins

isPluginActive(m, pluginId) == m.m_initialized /\ StateOf(m, pluginId) = "Active"

\* ------------------------------------------------ PluginManager, metadata
\* variant: the id inside the descriptor is not compared with the file name
loadPluginMetadata_NoIdCheck(m, pluginId) ==
    LET file == FileOf(m.m_metadataDir, pluginId)
        metadata == loadFromFile(file)
    IN  IF file.t = "nofile" THEN Result(m, "false")
        ELSE IF ~metadata.m_isValid THEN Result(m, "false")
        ELSE Result([m EXCEPT !.m_pluginMetadata = PutMetadata(@, pluginId, metadata)], "true")

loadPluginMetadata(m, pluginId) ==
    LET file == FileOf(m.m_metadataDir, pluginId)
        metadata == loadFromFile(file)
    IN  IF file.t = "nofile" THEN Result(m, "false")
        ELSE IF ~metadata.m_isValid THEN Result(m, "false")
        ELSE IF getPluginId(metadata) # pluginId THEN Result(m, "false")
        ELSE Result([m EXCEPT !.m_pluginMetadata = PutMetadata(@, pluginId, metadata)], "true")

RECURSIVE CheckDependenciesFrom(_, _, _)
CheckDependenciesFrom(m, dependencies, i) ==
    IF i > Len(dependencies) THEN Result(m, "true")
    ELSE LET depId == dependencies[i]
             r == IF depId \in DOMAIN m.m_pluginMetadata THEN Result(m, "true")
                  ELSE loadPluginMetadata(m, depId)
         IN  IF r.ret = "false" THEN Result(r.m, "false")
             ELSE IF ~isCompatibleWithFramework(MetaOf(r.m, depId), m_frameworkVersion)
                  THEN Result(r.m, "false")
                  ELSE CheckDependenciesFrom(r.m, dependencies, i + 1)

\* variant: the dependencies' metadata is not looked at
checkPluginDependencies_Skipped(m, pluginId) == Result(m, "true")

checkPluginDependencies(m, pluginId) ==
    IF pluginId \notin DOMAIN m.m_pluginMetadata THEN Result(m, "false")
    ELSE CheckDependenciesFrom(m, getPluginDependencies(MetaOf(m, pluginId)), 1)

\* variant: only loaded plugins count as dependents
getDependentPlugins_LoadedOnly(m, pluginId) ==
    {k \in m.m_plugins : k # pluginId /\ dependsOn(MetaOf(m, k), pluginId)}

getDependentPlugins(m, pluginId) ==
    {k \in DOMAIN m.m_pluginMetadata : k # pluginId /\ dependsOn(m.m_pluginMetadata[k], pluginId)}

RECURSIVE ScanFrom(_, _, _)
ScanFrom(m, found, i) ==
    IF i > Len(IdOrder) THEN Result(m, found)
    ELSE LET pluginId == IdOrder[i]
         IN  IF FileOf(m.m_metadataDir, pluginId).t = "nofile"
             THEN ScanFrom(m, found, i + 1)
             ELSE LET r == loadPluginMetadata(m, pluginId)
                  IN  ScanFrom(r.m, IF r.ret = "true" THEN Append(found, pluginId) ELSE found, i + 1)

\* variant: a scan starts from an empty state map
scanForPlugins_ResetsStates(m) ==
    IF ~m.m_initialized THEN Result(m, <<>>)
    ELSE ScanFrom([m EXCEPT !.m_pluginStates = [x \in Ids |-> "NotLoaded"]], <<>>, 1)

scanForPlugins(m) ==
    IF ~m.m_initialized THEN Result(m, <<>>) ELSE ScanFrom(m, <<>>, 1)

\* --------------------------------------------------- PluginManager, load
\* lines 314..368: find the module, load it, take and cast the instance.
\* After a failed load() or instance() the loader is deleted and then asked
\* for errorString(): the read of the deleted object may give any text or
\* end the process.
\* variant: the modules of the declared dependencies are loaded as well
loadLibrary_WithDependencies(m, pluginId) ==
    LET deps == getPluginDependencies(MetaOf(m, pluginId))
        both == {pluginId} \cup {deps[i] : i \in 1..Len(deps)}
        m1 == LogEntry(m, "loader", "load", pluginId, "ok", "")
        m2 == [m1 EXCEPT !.m_pluginLoaders = @ \cup both,
                         !.m_plugins = @ \cup both,
                         !.m_pluginStates = [k \in DOMAIN @ |-> IF k \in both THEN "Loaded" ELSE @[k]]]
    IN  {Result(Emit(m2, "pluginLoaded", pluginId, "", ""), "true")}

loadLibrary(m, pluginId) ==
    UNION {
      CASE o = "notfound" -> {Fail(m, pluginId, "Plugin library not found", "")}
        [] o = "loadfail" ->
             LET m1 == LogEntry(m, "loader", "load", pluginId, o, "")
             IN  {Fail(m1, pluginId, "Failed to load", "errorString"), Result(SetState(m1, pluginId, "Failed"), "crash")}
        [] o = "noinstance" ->
             LET m1 == LogEntry(m, "loader", "load", pluginId, o, "")
             IN  {Fail(m1, pluginId, "Failed to get instance", "errorString"), Result(SetState(m1, pluginId, "Failed"), "crash")}
        [] o = "notIPlugin" ->
             {Fail(LogEntry(m, "loader", "load", pluginId, o, ""), pluginId, "Does not implement IPlugin interface", "")}
        [] o = "ok" ->
             LET m1 == LogEntry(m, "loader", "load", pluginId, o, "")
                 m2 == [m1 EXCEPT !.m_pluginLoaders = @ \cup {pluginId},
                                  !.m_plugins = @ \cup {pluginId},
                                  !.m_pluginStates[pluginId] = "Loaded"]
             IN  {Result(Emit(m2, "pluginLoaded", pluginId, "", ""), "true")}
      : o \in LoadOutcomes }

\* variant: a plugin that is loaded is loaded again
loadPlugin_NoLoadedCheck(m, pluginId) ==
    IF ~m.m_initialized THEN {Result(m, "false")}
    ELSE LET r1 == IF pluginId \in DOMAIN m.m_pluginMetadata THEN Result(m, "true")
                   ELSE loadPluginMetadata(m, pluginId)
         IN  IF r1.ret = "false" THEN {Result(r1.m, "false")}
             ELSE loadLibrary(r1.m, pluginId)

loadPlugin(m, pluginId) ==
    IF ~m.m_initialized THEN {Result(m, "false")}
    ELSE IF isPluginLoaded(m, pluginId) THEN {Result(m, "true")}
    ELSE LET r1 == IF pluginId \in DOMAIN m.m_pluginMetadata THEN Result(m, "true")
                   ELSE loadPluginMetadata(m, pluginId)
         IN  IF r1.ret = "false" THEN {Result(r1.m, "false")}
             ELSE IF ~isCompatibleWithFramework(MetaOf(r1.m, pluginId), m_frameworkVersion)
                  THEN {Fail(r1.m, pluginId, "Incompatible with framework version", "")}
                  ELSE LET r2 == checkPluginDependencies(r1.m, pluginId)
                       IN  IF r2.ret = "false"
                           THEN {Fail(r2.m, pluginId, "Unsatisfied dependencies", "")}
                           ELSE loadLibrary(r2.m, pluginId)

\* ------------------------------------------------------- plugin hooks
\* plugin->hook() with outcome o, recorded with the state map of the moment
\* what is thrown is recorded where the code tells the kinds apart
Hook(m, hook, pluginId, o) ==
    IF o \in ThrowKinds THEN LogEntry(m, "hook", hook, pluginId, "throws", o)
    ELSE LogEntry(m, "hook", hook, pluginId, o, "")


RECURSIVE initializePlugin(_, _, _)
RECURSIVE InitializeDependenciesFrom(_, _, _, _, _)
RECURSIVE activatePlugin(_, _, _)
RECURSIVE ActivateDependenciesFrom(_, _, _, _, _)
RECURSIVE deactivatePlugin(_, _, _)
RECURSIVE DeactivateDependentsFrom(_, _, _, _, _)

\* ---------------------------------------------- PluginManager, initialize
\* variant: the early return for an initialized plugin is missing
AlreadyInitialized_Never(m, pluginId) == FALSE

\* lines 445..448
AlreadyInitialized(m, pluginId) == StateOf(m, pluginId) \in {"Initialized", "Active"}

\* variant: a failing initialize hook is reported but the state is kept
InitializeOwn_KeepsState(m, pluginId) ==
    { IF o = "true"
      THEN Result(Emit(SetState(Hook(m, "initialize", pluginId, o), pluginId, "Initialized"),
                       "pluginInitialized", pluginId, "", ""), "true")
      ELSE Result(Hook(m, "initialize", pluginId, o), "false")
      : o \in HookOutcomes }

\* lines 479..512: the plugin's own initialize hook inside try/catch
InitializeOwn(m, pluginId) ==
    { IF o = "true"
      THEN Result(Emit(SetState(Hook(m, "initialize", pluginId, o), pluginId, "Initialized"),
                       "pluginInitialized", pluginId, "", ""), "true")
      ELSE IF o = "false"
           THEN Fail(Hook(m, "initialize", pluginId, o), pluginId, "Failed to initialize", "")
           ELSE Fail(Hook(m, "initialize", pluginId, o), pluginId, "Exception during initialization", o)
      : o \in HookOutcomes }

\* variant: the dependencies are neither loaded nor initialized
InitializeDependenciesFrom_NoDependencies(m, pluginId, dependencies, i, d) == InitializeOwn(m, pluginId)

\* lines 459..477: load and initialize the dependencies in declared order
InitializeDependenciesFrom(m, pluginId, dependencies, i, d) ==
    IF i > Len(dependencies) THEN InitializeOwn(m, pluginId)
    ELSE LET depId == dependencies[i]
             loaded == IF ~isPluginLoaded(m, depId) THEN loadPlugin(m, depId)
                       ELSE {Result(m, "true")}
         IN  UNION {
               IF r1.ret = "crash" THEN {r1}
               ELSE IF r1.ret = "false"
                    THEN {Fail(r1.m, pluginId, "Failed to load dependency", depId)}
                    ELSE LET inited == IF StateOf(r1.m, depId) \notin {"Initialized", "Active"}
                                       THEN initializePlugin(r1.m, depId, d + 1)
                                       ELSE {Result(r1.m, "true")}
                         IN  UNION {
                               IF r2.ret = "crash" THEN {r2}
                               ELSE IF r2.ret = "false"
                                    THEN {Fail(r2.m, pluginId, "Failed to initialize dependency", depId)}
                                    ELSE InitializeDependenciesFrom(r2.m, pluginId, dependencies, i + 1, d)
                               : r2 \in inited }
               : r1 \in loaded }

\* variant: a plugin that is not loaded is loaded first
initializePlugin_AutoLoads(m, pluginId, d) ==
    IF d > MaxDepth THEN {Result(m, "crash")}
    ELSE IF ~m.m_initialized THEN {Result(m, "false")}
    ELSE IF AlreadyInitialized(m, pluginId) THEN {Result(m, "true")}
    ELSE IF StateOf(m, pluginId) = "Failed" THEN {Result(m, "false")}
    ELSE UNION {
           IF r.ret # "true" THEN {r}
           ELSE InitializeDependenciesFrom(r.m, pluginId, getPluginDependencies(MetaOf(r.m, pluginId)), 1, d)
           : r \in loadPlugin(m, pluginId) }

initializePlugin(m, pluginId, d) ==
    IF d > MaxDepth THEN {Result(m, "crash")}
    ELSE IF ~m.m_initialized THEN {Result(m, "false")}
    ELSE IF ~isPluginLoaded(m, pluginId) THEN {Result(m, "false")}
    ELSE IF AlreadyInitialized(m, pluginId) THEN {Result(m, "true")}
    ELSE IF StateOf(m, pluginId) = "Failed" THEN {Result(m, "false")}
    ELSE InitializeDependenciesFrom(m, pluginId, getPluginDependencies(MetaOf(m, pluginId)), 1, d)

\* ------------------------------------------------ PluginManager, activate
\* lines 560..593: the plugin's own activate hook inside try/catch
ActivateOwn(m, pluginId) ==
    { IF o = "true"
      THEN Result(Emit(SetState(Hook(m, "activate", pluginId, o), pluginId, "Active"),
                       "pluginActivated", pluginId, "", ""), "true")
      ELSE IF o = "false"
           THEN Fail(Hook(m, "activate", pluginId, o), pluginId, "Failed to activate", "")
           ELSE Fail(Hook(m, "activate", pluginId, o), pluginId, "Exception during activation", o)
      : o \in HookOutcomes }

\* variant: the dependencies are not activated
ActivateDependenciesFrom_NoDependencies(m, pluginId, dependencies, i, d) == ActivateOwn(m, pluginId)

\* lines 551..558: activate the dependencies in declared order
ActivateDependenciesFrom(m, pluginId, dependencies, i, d) ==
    IF i > Len(dependencies) THEN ActivateOwn(m, pluginId)
    ELSE LET depId == dependencies[i]
             activated == IF StateOf(m, depId) # "Active" THEN activatePlugin(m, depId, d + 1)
                          ELSE {Result(m, "true")}
         IN  UNION {
               IF r.ret = "crash" THEN {r}
               ELSE IF r.ret = "false" THEN {Result(r.m, "false")}
               ELSE ActivateDependenciesFrom(r.m, pluginId, dependencies, i + 1, d)
               : r \in activated }

activatePlugin(m, pluginId, d) ==
    IF d > MaxDepth THEN {Result(m, "crash")}
    ELSE IF ~m.m_initialized THEN {Result(m, "false")}
    ELSE IF ~isPluginLoaded(m, pluginId) THEN {Result(m, "false")}
    ELSE IF StateOf(m, pluginId) = "Active" THEN {Result(m, "true")}
    ELSE IF StateOf(m, pluginId) = "Failed" THEN {Result(m, "false")}
    ELSE LET inited == IF StateOf(m, pluginId) # "Initialized" THEN initializePlugin(m, pluginId, d + 1)
                       ELSE {Result(m, "true")}
         IN  UNION {
               IF r.ret = "crash" THEN {r}
               ELSE IF r.ret = "false" THEN {Result(r.m, "false")}
               ELSE ActivateDependenciesFrom(r.m, pluginId, getPluginDependencies(MetaOf(r.m, pluginId)), 1, d)
               : r \in inited }

\* ---------------------------------------------- PluginManager, deactivate
\* lines 615..624: the loaded, Active plugins whose metadata depends on pluginId
ActiveDependents(m, pluginId) ==
    {k \in m.m_plugins : k # pluginId /\ StateOf(m, k) = "Active" /\ dependsOn(MetaOf(m, k), pluginId)}

\* variant: a successful deactivation lands on Inactive
DeactivateOwn_ToInactive(m, pluginId) ==
    { IF o = "true"
      THEN Result(Emit(SetState(Hook(m, "deactivate", pluginId, o), pluginId, "Inactive"),
                       "pluginDeactivated", pluginId, "", ""), "true")
      ELSE Result(Hook(m, "deactivate", pluginId, o), "false")
      : o \in PlainOutcomes }

\* variant: a failing deactivate hook fails the plugin, as initialize and activate do
DeactivateOwn_FailsPlugin(m, pluginId) ==
    { IF o = "true"
      THEN Result(Emit(SetState(Hook(m, "deactivate", pluginId, o), pluginId, "Initialized"),
                       "pluginDeactivated", pluginId, "", ""), "true")
      ELSE Fail(Hook(m, "deactivate", pluginId, o), pluginId, "Failed to deactivate", "")
      : o \in PlainOutcomes }

\* lines 634..659: the plugin's own deactivate hook inside try/catch
DeactivateOwn(m, pluginId) ==
    { IF o = "true"
      THEN Result(Emit(SetState(Hook(m, "deactivate", pluginId, o), pluginId, "Initialized"),
                       "pluginDeactivated", pluginId, "", ""), "true")
      ELSE Result(Hook(m, "deactivate", pluginId, o), "false")
      : o \in PlainOutcomes }

\* variant: the dependents are left active
DeactivateDependentsFrom_NoDependents(m, pluginId, dependentPlugins, i, d) == DeactivateOwn(m, pluginId)

\* lines 626..632: deactivate the dependents first
DeactivateDependentsFrom(m, pluginId, dependentPlugins, i, d) ==
    IF i > Len(dependentPlugins) THEN DeactivateOwn(m, pluginId)
    ELSE UNION {
           IF r.ret = "crash" THEN {r}
           ELSE IF r.ret = "false" THEN {Result(r.m, "false")}
           ELSE DeactivateDependentsFrom(r.m, pluginId, dependentPlugins, i + 1, d)
           : r \in deactivatePlugin(m, dependentPlugins[i], d + 1) }

\* variant: the early return for a plugin that is not Active is missing
deactivatePlugin_NoStateCheck(m, pluginId, d) ==
    IF d > MaxDepth THEN {Result(m, "crash")}
    ELSE IF ~m.m_initialized THEN {Result(m, "false")}
    ELSE IF ~isPluginLoaded(m, pluginId) THEN {Result(m, "false")}
    ELSE DeactivateDependentsFrom(m, pluginId, Keys(ActiveDependents(m, pluginId)), 1, d)

deactivatePlugin(m, pluginId, d) ==
    IF d > MaxDepth THEN {Result(m, "crash")}
    ELSE IF ~m.m_initialized THEN {Result(m, "false")}
    ELSE IF ~isPluginLoaded(m, pluginId) THEN {Result(m, "false")}
    ELSE IF StateOf(m, pluginId) # "Active" THEN {Result(m, "true")}
    ELSE DeactivateDependentsFrom(m, pluginId, Keys(ActiveDependents(m, pluginId)), 1, d)

\* ---------------------------------------------------------------- QString
\* Plugin ids and message types reach the bus as QStrings: sequences of
\* characters.  The manager's ids are one character long.
Chars(pluginId) == <<pluginId>>

CharCode(c) ==
    CASE c = ":" -> 58 [] c = "A" -> 65 [] c = "B" -> 66 [] c = "C" -> 67
      [] c = "x" -> 120 [] c = "y" -> 121 [] OTHER -> 0

RECURSIVE LessFrom(_, _, _)
LessFrom(a, b, i) ==
    IF i > Len(a) THEN i <= Len(b)
    ELSE IF i > Len(b) THEN FALSE
    ELSE IF a[i] # b[i] THEN CharCode(a[i]) < CharCode(b[i])
    ELSE LessFrom(a, b, i + 1)

\* operator<(QString, QString), the order of a QMap's keys
Less(a, b) == LessFrom(a, b, 1)

\* QMap::keys(): the keys in ascending order
RECURSIVE SortedKeys(_)
SortedKeys(S) ==
    IF S = {} THEN <<>>
    ELSE LET first == CHOOSE k \in S : \A o \in S \ {k} : Less(k, o)
         IN  <<first>> \o SortedKeys(S \ {first})

RECURSIVE SplitFrom(_, _, _, _)
SplitFrom(str, i, parts, cur) ==
    IF i > Len(str) THEN Append(parts, cur)
    ELSE IF str[i] = ":" THEN SplitFrom(str, i + 1, Append(parts, cur), <<>>)
    ELSE SplitFrom(str, i + 1, parts, Append(cur, str[i]))

\* QString::split(':'), empty parts kept
split(str) == SplitFrom(str, 1, <<>>, <<>>)

\* ------------------------------------------------------ PermissionManager
Permissions == {"communication.send", "communication.receive", "communication.broadcast"}

hasPermission(m, pluginId, permission) ==
    /\ pluginId \in DOMAIN m.m_pluginPermissions
    /\ permission \in m.m_pluginPermissions[pluginId]

\* ---------------------------------------------------- PluginCommunication
\* QString("%1:%2").arg(pluginId, messageType)
handlerKey(pluginId, messageType) == pluginId \o <<":">> \o messageType

\* a registered handler is named after the call that registered it
Handler(pluginId, messageType) == <<pluginId, messageType>>

\* what one invocation of a handler can do: return a valid QVariant, return
\* an invalid one, or throw
HandlerOutcomes == {"value", "empty", "throws"}

PutHandler(map, key, handler) == [k \in DOMAIN map \cup {key} |-> IF k = key THEN handler ELSE map[k]]

RemoveHandlers(map, keys) == [k \in DOMAIN map \ keys |-> map[k]]

busInitialize(m) == Result([m EXCEPT !.busInitialized = TRUE], "true")

busShutdown(m) ==
    IF m.busInitialized
    THEN Result([m EXCEPT !.m_handlers = <<>>, !.busInitialized = FALSE], "void")
    ELSE Result(m, "void")

registerMessageHandler(m, pluginId, messageType) ==
    LET key == handlerKey(pluginId, messageType)
    IN  IF ~m.busInitialized THEN Result(m, "false")
        ELSE IF key \in DOMAIN m.m_handlers THEN Result(m, "false")
        ELSE Result([m EXCEPT !.m_handlers = PutHandler(@, key, Handler(pluginId, messageType))], "true")

unregisterMessageHandler(m, pluginId, messageType) ==
    LET key == handlerKey(pluginId, messageType)
    IN  IF ~m.busInitialized THEN Result(m, "false")
        ELSE IF key \notin DOMAIN m.m_handlers THEN Result(m, "false")
        ELSE Result([m EXCEPT !.m_handlers = RemoveHandlers(@, {key})], "true")

\* lines 191..202: the keys that split into exactly (pluginId, type)
unregisterAllMessageHandlers(m, pluginId) ==
    IF ~m.busInitialized THEN m
    ELSE LET keysToRemove == {k \in DOMAIN m.m_handlers : Len(split(k)) = 2 /\ split(k)[1] = pluginId}
         IN  [m EXCEPT !.m_handlers = RemoveHandlers(@, keysToRemove)]

\* m_handlers[handlerKey](sender, data) with outcome o
Invoke(m, key, o) == LogEntry(m, "handler", "invoke", m.m_handlers[key], o, key)

\* the plugin ids and message types the bus is called with
BusIds == {<<"A">>, <<"B">>, <<"A", ":", "x">>}

MessageTypes == {<<"y">>, <<"x", ":", "y">>}

\* a default-constructed std::function: what QMap::operator[] inserts for a
\* key that is not in the map
EmptyHandler == << <<>>, <<>> >>

\* what a handler can do with the bus before it returns: the lock of the bus
\* is recursive, so the calling thread gets in
Callbacks ==
    {<<"unregisterMessageHandler", pluginId, messageType>> : pluginId \in BusIds, messageType \in MessageTypes}
    \cup {<<"unregisterAllMessageHandlers", pluginId, <<>> >> : pluginId \in BusIds}

\* the handler table after the call c
CallbackTable(m, c) ==
    IF c[1] = "unregisterMessageHandler"
    THEN unregisterMessageHandler(m, c[2], c[3]).m.m_handlers
    ELSE unregisterAllMessageHandlers(m, c[2]).m_handlers

\* the call c made from inside a handler
Callback(m, c) ==
    [LogEntry(m, "callback", c[1], c[2], "", c[3]) EXCEPT !.m_handlers = CallbackTable(m, c)]

\* m_handlers[handlerKey](sender, data): operator[] inserts an empty handler
\* for a missing key, and calling an empty std::function throws; a
\* registered handler returns, throws, or removes handlers and returns
HandlerRuns(m, key) ==
    LET m0 == IF key \in DOMAIN m.m_handlers THEN m
              ELSE [m EXCEPT !.m_handlers = PutHandler(@, key, EmptyHandler)]
    IN  IF m0.m_handlers[key] = EmptyHandler
        THEN {[m |-> Invoke(m0, key, "throws"), out |-> "throws"]}
        ELSE {[m |-> Invoke(m0, key, o), out |-> o] : o \in HandlerOutcomes}
             \cup {[m |-> Callback(Invoke(m0, key, "value"), c), out |-> "value"]
                     : c \in {c \in Callbacks : CallbackTable(m0, c) # m0.m_handlers}}

sendMessage(m, sender, receiver, messageType) ==
    LET key == handlerKey(receiver, messageType)
    IN  IF ~m.busInitialized THEN {Result(m, "empty")}
        ELSE IF ~hasPermission(m, sender, "communication.send") THEN {Result(m, "empty")}
        ELSE IF ~hasPermission(m, receiver, "communication.receive") THEN {Result(m, "empty")}
        ELSE IF key \notin DOMAIN m.m_handlers THEN {Result(m, "empty")}
        ELSE LET m1 == Emit(m, "messageSent", receiver, "", messageType)
             IN  { IF h.out = "throws" THEN Result(h.m, "exception")
                   ELSE Result(Emit(h.m, "messageReceived", receiver, h.out, messageType), h.out)
                   : h \in HandlerRuns(m1, key) }

\* a broadcast's result: the machine, how the call ended, the response map
BroadcastResult(m, ret, responses) == [m |-> m, ret |-> ret, responses |-> responses]

PutResponse(map, receiver, response) ==
    [k \in DOMAIN map \cup {receiver} |-> IF k = receiver THEN response ELSE map[k]]

\* lines 115..131: the loop over the snapshot of the keys
RECURSIVE BroadcastFrom(_, _, _, _, _)
BroadcastFrom(m, messageType, handlerKeys, i, responses) ==
    IF i > Len(handlerKeys) THEN {BroadcastResult(m, "map", responses)}
    ELSE LET key == handlerKeys[i]
             parts == split(key)
         IN  IF ~(Len(parts) = 2 /\ parts[2] = messageType)
             THEN BroadcastFrom(m, messageType, handlerKeys, i + 1, responses)
             ELSE IF ~hasPermission(m, parts[1], "communication.receive")
                  THEN BroadcastFrom(m, messageType, handlerKeys, i + 1, responses)
                  ELSE UNION {
                         IF h.out = "throws" THEN {BroadcastResult(h.m, "exception", responses)}
                         ELSE BroadcastFrom(Emit(h.m, "messageReceived", parts[1], h.out, messageType),
                                            messageType, handlerKeys, i + 1,
                                            PutResponse(responses, parts[1], h.out))
                         : h \in HandlerRuns(m, key) }

\* variant: the broadcast is gated on communication.send
broadcastMessage_GatedOnSend(m, sender, messageType) ==
    IF ~m.busInitialized THEN {BroadcastResult(m, "map", <<>>)}
    ELSE IF ~hasPermission(m, sender, "communication.send") THEN {BroadcastResult(m, "map", <<>>)}
    ELSE BroadcastFrom(Emit(m, "messageBroadcast", sender, "", messageType), messageType,
                       SortedKeys(DOMAIN m.m_handlers), 1, <<>>)

\* lines 91..113: the tests, the snapshot of the keys, messageBroadcast
broadcastMessage(m, sender, messageType) ==
    IF ~m.busInitialized THEN {BroadcastResult(m, "map", <<>>)}
    ELSE IF ~hasPermission(m, sender, "communication.broadcast") THEN {BroadcastResult(m, "map", <<>>)}
    ELSE BroadcastFrom(Emit(m, "messageBroadcast", sender, "", messageType), messageType,
                       SortedKeys(DOMAIN m.m_handlers), 1, <<>>)

\* -------------------------------------------------- PluginManager, unload
\* variant: the module handle stays in m_pluginLoaders
ReleaseModule_KeepsLoader(m, pluginId) ==
    LET m1 == unregisterAllMessageHandlers(m, Chars(pluginId))
    IN  { IF o = "ok"
          THEN LET m2 == LogEntry(m1, "loader", "unload", pluginId, o, "")
                   m3 == [m2 EXCEPT !.m_plugins = @ \ {pluginId},
                                    !.m_pluginStates[pluginId] = "NotLoaded"]
               IN  Result(Emit(m3, "pluginUnloaded", pluginId, "", ""), "true")
          ELSE Result(LogEntry(m1, "loader", "unload", pluginId, o, ""), "false")
          : o \in UnloadOutcomes }

\* lines 409..428: purge the handlers, release the module, forget the plugin
ReleaseModule(m, pluginId) ==
    LET m1 == unregisterAllMessageHandlers(m, Chars(pluginId))
    IN  { IF o = "ok"
          THEN LET m2 == LogEntry(m1, "loader", "unload", pluginId, o, "")
                   m3 == [m2 EXCEPT !.m_pluginLoaders = @ \ {pluginId},
                                    !.m_plugins = @ \ {pluginId},
                                    !.m_pluginStates[pluginId] = "NotLoaded"]
               IN  Result(Emit(m3, "pluginUnloaded", pluginId, "", ""), "true")
          ELSE Result(LogEntry(m1, "loader", "unload", pluginId, o, ""), "false")
          : o \in UnloadOutcomes }

\* variant: a failing shutdown hook fails the plugin
ShutdownHook_FailsPlugin(m, pluginId) ==
    IF StateOf(m, pluginId) # "Initialized" THEN ReleaseModule(m, pluginId)
    ELSE UNION {
           IF o = "true" THEN ReleaseModule(Hook(m, "shutdown", pluginId, o), pluginId)
           ELSE IF o = "false"
                THEN {Fail(Hook(m, "shutdown", pluginId, o), pluginId, "Failed to shutdown", "")}
                ELSE {Result(Hook(m, "shutdown", pluginId, o), "exception")}
           : o \in PlainOutcomes }

\* lines 400..407: the shutdown hook of an Initialized plugin, not inside a
\* try block: what the hook throws leaves unloadPlugin as an exception
ShutdownHook(m, pluginId) ==
    IF StateOf(m, pluginId) # "Initialized" THEN ReleaseModule(m, pluginId)
    ELSE UNION {
           IF o = "true" THEN ReleaseModule(Hook(m, "shutdown", pluginId, o), pluginId)
           ELSE IF o = "false" THEN {Result(Hook(m, "shutdown", pluginId, o), "false")}
           ELSE {Result(Hook(m, "shutdown", pluginId, o), "exception")}
           : o \in PlainOutcomes }

unloadPlugin(m, pluginId) ==
    IF ~m.m_initialized THEN {Result(m, "false")}
    ELSE IF ~isPluginLoaded(m, pluginId) THEN {Result(m, "true")}
    ELSE IF getDependentPlugins(m, pluginId) # {} THEN {Result(m, "false")}
    ELSE LET deactivated == IF isPluginActive(m, pluginId) THEN deactivatePlugin(m, pluginId, 1)
                            ELSE {Result(m, "true")}
         IN  UNION {
               IF r.ret = "crash" THEN {r}
               ELSE IF r.ret = "false" THEN {Result(r.m, "false")}
               ELSE ShutdownHook(r.m, pluginId)
               : r \in deactivated }

\* ----------------------------------------- PluginManager, executeCommand
\* what one invocation of plugin->executeCommand can do: return a value,
\* return an invalid QVariant, or throw (the three catch clauses do the same)
CommandOutcomes == {"value", "empty", "throws"}

\* lines 787..798: the call inside try/catch; whatever is thrown becomes an
\* invalid QVariant
ExecuteCommand(m, pluginId) ==
    { Result(Hook(m, "executeCommand", pluginId, o), IF o = "value" THEN "value" ELSE "empty")
      : o \in CommandOutcomes }

\* variant: the command is passed to any loaded plugin
executePluginCommand_NoActiveCheck(m, pluginId) ==
    IF ~m.m_initialized THEN {Result(m, "empty")}
    ELSE IF ~isPluginLoaded(m, pluginId) THEN {Result(m, "empty")}
    ELSE ExecuteCommand(m, pluginId)

executePluginCommand(m, pluginId) ==
    IF ~m.m_initialized THEN {Result(m, "empty")}
    ELSE IF ~isPluginLoaded(m, pluginId) THEN {Result(m, "empty")}
    ELSE IF ~isPluginActive(m, pluginId) THEN {Result(m, "empty")}
    ELSE ExecuteCommand(m, pluginId)

\* ------------------------------------------ PluginManager, dependency sort
RECURSIVE buildDependencyGraph(_, _, _)
RECURSIVE VisitDependenciesFrom(_, _, _, _)
VisitDependenciesFrom(m, dependencies, i, acc) ==
    IF i > Len(dependencies) THEN acc
    ELSE IF dependencies[i] \in acc.visited
         THEN VisitDependenciesFrom(m, dependencies, i + 1, acc)
         ELSE VisitDependenciesFrom(m, dependencies, i + 1, buildDependencyGraph(m, dependencies[i], acc))

\* variant: the plugin is appended before its dependencies are visited
buildDependencyGraph_AppendsFirst(m, pluginId, acc) ==
    LET acc1 == [acc EXCEPT !.visited = @ \cup {pluginId}, !.sortedPlugins = Append(@, pluginId)]
    IN  IF pluginId \in DOMAIN m.m_pluginMetadata
        THEN VisitDependenciesFrom(m, getPluginDependencies(MetaOf(m, pluginId)), 1, acc1)
        ELSE acc1

\* acc = [visited, sortedPlugins], both passed by reference in the code
buildDependencyGraph(m, pluginId, acc) ==
    LET acc1 == [acc EXCEPT !.visited = @ \cup {pluginId}]
        acc2 == IF pluginId \in DOMAIN m.m_pluginMetadata
                THEN VisitDependenciesFrom(m, getPluginDependencies(MetaOf(m, pluginId)), 1, acc1)
                ELSE acc1
    IN  [acc2 EXCEPT !.sortedPlugins = Append(@, pluginId)]

RECURSIVE SortFrom(_, _, _, _)
SortFrom(m, pluginIds, i, acc) ==
    IF i > Len(pluginIds) THEN acc
    ELSE IF pluginIds[i] \in acc.visited
         THEN SortFrom(m, pluginIds, i + 1, acc)
         ELSE SortFrom(m, pluginIds, i + 1, buildDependencyGraph(m, pluginIds[i], acc))

sortPluginsByDependency(m, pluginIds) ==
    SortFrom(m, pluginIds, 1, [visited |-> {}, sortedPlugins |-> <<>>]).sortedPlugins

Reverse(s) == [i \in 1..Len(s) |-> s[Len(s) + 1 - i]]

\* ------------------------------------------------ PluginManager, shutdown
\* lines 238..243: forget everything
ClearRegistry(m) ==
    [m EXCEPT !.m_pluginLoaders = {}, !.m_plugins = {}, !.m_pluginMetadata = <<>>,
              !.m_pluginStates = [x \in Ids |-> "NotLoaded"], !.m_initialized = FALSE]

\* lines 231..236: deactivate (if active) and unload, results ignored
RECURSIVE ShutdownFrom(_, _, _)
ShutdownFrom(m, sortedPluginIds, i) ==
    IF i > Len(sortedPluginIds) THEN {Result(ClearRegistry(m), "void")}
    ELSE LET pluginId == sortedPluginIds[i]
             deactivated == IF isPluginActive(m, pluginId) THEN deactivatePlugin(m, pluginId, 1)
                            ELSE {Result(m, "true")}
         IN  UNION {
               IF r1.ret = "crash" THEN {r1}
               ELSE UNION {
                      IF r2.ret \in {"crash", "exception"} THEN {r2}
                      ELSE ShutdownFrom(r2.m, sortedPluginIds, i + 1)
                      : r2 \in unloadPlugin(r1.m, pluginId) }
               : r1 \in deactivated }

shutdown(m) ==
    IF ~m.m_initialized THEN {Result(m, "void")}
    ELSE ShutdownFrom(m, Reverse(sortPluginsByDependency(m, Keys(m.m_plugins))), 1)

\* ------------------------------------------------------------ the lock
\* The header declares m_mutex a QMutex; the operations lock it with a
\* QRecursiveMutexLocker, a class Qt does not have, and include
\* <QRecursiveMutex>.  Whether a build of the manager lets the owner of the
\* lock in again is not decided by the source: both kinds are followed.
MutexKinds == {"QMutex", "QRecursiveMutex"}

Threads == {"t1", "t2"}

NoOwner == "none"

Unlocked(kind) == [kind |-> kind, owner |-> NoOwner, count |-> 0]

\* variant: the locker lets every thread in
canLock_NoExclusion(mutex, t) == TRUE

\* lock() returns: the mutex is free, or recursive and held by the caller.
\* A QMutex locked again by its owner never returns.
canLock(mutex, t) ==
    \/ mutex.owner = NoOwner
    \/ mutex.owner = t /\ mutex.kind = "QRecursiveMutex"

lock(mutex, t) == [mutex EXCEPT !.owner = t, !.count = @ + 1]

unlock(mutex) ==
    IF mutex.count > 1 THEN [mutex EXCEPT !.count = @ - 1]
    ELSE [mutex EXCEPT !.owner = NoOwner, !.count = 0]

\* a thread that is in no call of the manager
Idle == [pc |-> "idle", op |-> "", arg |-> "", pending |-> <<>>, ret |-> "",
         ready |-> FALSE, clean |-> FALSE, overlap |-> FALSE]

\* ================================================================ actions
\* what the host granted to one plugin (PermissionManager::grantPermission)
PermissionSets == {{}, {"communication.send"}, {"communication.receive", "communication.broadcast"}}

PermissionTables == [BusIds -> PermissionSets]

TypeOK ==
    /\ m_initialized \in BOOLEAN
    /\ m_metadataDir \in DirNames \cup DOMAIN TypedDirs \cup {""}
    /\ DOMAIN m_pluginMetadata \subseteq Ids
    /\ m_plugins \subseteq Ids
    /\ m_pluginLoaders \subseteq Ids
    /\ m_pluginStates \in [Ids -> PluginState]
    /\ busInitialized \in BOOLEAN
    /\ \A k \in DOMAIN m_handlers : m_handlers[k] \in (BusIds \X MessageTypes) \cup {EmptyHandler}
    /\ m_pluginPermissions = <<>> \/ m_pluginPermissions \in PermissionTables
    /\ m_mutex.kind \in MutexKinds
    /\ m_mutex.owner \in Threads \cup {NoOwner}
    /\ busMutex.kind = "QRecursiveMutex"
    /\ busMutex.owner \in Threads \cup {NoOwner}
    /\ DOMAIN threads = Threads
    /\ crashed \in BOOLEAN
    /\ lastRet \in {"none", "void", "true", "false", "exception", "crash", "value", "empty", "map"}

InitRegistry ==
    /\ m_initialized = FALSE
    /\ m_metadataDir = ""
    /\ m_pluginMetadata = <<>>
    /\ m_plugins = {}
    /\ m_pluginLoaders = {}
    /\ m_pluginStates = [x \in Ids |-> "NotLoaded"]
    /\ busInitialized = FALSE
    /\ m_handlers = <<>>
    /\ crashed = FALSE
    /\ lastCall = <<"none", "">>
    /\ lastRet = "none"
    /\ lastFound = <<>>
    /\ log = <<>>

\* one thread makes all the calls, and the lock lets it in
OneThread ==
    /\ m_mutex = Unlocked("QRecursiveMutex")
    /\ busMutex = Unlocked("QRecursiveMutex")
    /\ threads = [t \in Threads |-> Idle]

\* nothing is granted
Init == InitRegistry /\ m_pluginPermissions = <<>> /\ OneThread

\* the bus is used after the host made its grants
BusInit == InitRegistry /\ m_pluginPermissions \in PermissionTables /\ OneThread

\* the call <<op, arg>> of the one calling thread ended with result r
Commit(r, op, arg, found) ==
    /\ m_initialized' = r.m.m_initialized
    /\ m_metadataDir' = r.m.m_metadataDir
    /\ m_pluginMetadata' = r.m.m_pluginMetadata
    /\ m_plugins' = r.m.m_plugins
    /\ m_pluginLoaders' = r.m.m_pluginLoaders
    /\ m_pluginStates' = r.m.m_pluginStates
    /\ busInitialized' = r.m.busInitialized
    /\ m_handlers' = r.m.m_handlers
    /\ m_pluginPermissions' = r.m.m_pluginPermissions
    /\ crashed' = (r.ret = "crash")
    /\ lastCall' = <<op, arg>>
    /\ lastRet' = r.ret
    /\ lastFound' = found
    /\ log' = r.m.log
    /\ UNCHANGED <<m_mutex, busMutex, threads>>

\* PluginManager::initialize(pluginDir, metadataDir); creating a missing
\* directory may fail
initialize(m, metadataDir) ==
    IF m.m_initialized THEN {Result(m, "true")}
    ELSE {Result([m EXCEPT !.m_metadataDir = metadataDir, !.m_initialized = TRUE], "true"),
          Result(m, "false")}

Initialize(metadataDir) ==
    /\ ~crashed
    /\ \E r \in initialize(Machine, metadataDir) : Commit(r, "initialize", metadataDir, <<>>)

Shutdown ==
    /\ ~crashed
    /\ \E r \in shutdown(Machine) : Commit(r, "shutdown", "", <<>>)

ScanForPlugins ==
    /\ ~crashed
    /\ LET r == scanForPlugins(Machine)
       IN  Commit(Result(r.m, "void"), "scanForPlugins", "", r.ret)

LoadPlugin(pluginId) ==
    /\ ~crashed
    /\ \E r \in loadPlugin(Machine, pluginId) : Commit(r, "loadPlugin", pluginId, <<>>)

UnloadPlugin(pluginId) ==
    /\ ~crashed
    /\ \E r \in unloadPlugin(Machine, pluginId) : Commit(r, "unloadPlugin", pluginId, <<>>)

InitializePlugin(pluginId) ==
    /\ ~crashed
    /\ \E r \in initializePlugin(Machine, pluginId, 0) : Commit(r, "initializePlugin", pluginId, <<>>)

ActivatePlugin(pluginId) ==
    /\ ~crashed
    /\ \E r \in activatePlugin(Machine, pluginId, 0) : Commit(r, "activatePlugin", pluginId, <<>>)

DeactivatePlugin(pluginId) ==
    /\ ~crashed
    /\ \E r \in deactivatePlugin(Machine, pluginId, 0) : Commit(r, "deactivatePlugin", pluginId, <<>>)

ExecutePluginCommand(pluginId) ==
    /\ ~crashed
    /\ \E r \in executePluginCommand(Machine, pluginId) : Commit(r, "executePluginCommand", pluginId, <<>>)

Next ==
    \/ \E metadataDir \in DirNames : Initialize(metadataDir)
    \/ Shutdown
    \/ ScanForPlugins
    \/ \E pluginId \in Ids : LoadPlugin(pluginId)
    \/ \E pluginId \in Ids : UnloadPlugin(pluginId)
    \/ \E pluginId \in Ids : InitializePlugin(pluginId)
    \/ \E pluginId \in Ids : ActivatePlugin(pluginId)
    \/ \E pluginId \in Ids : DeactivatePlugin(pluginId)
    \/ \E pluginId \in Ids : ExecutePluginCommand(pluginId)

Spec == Init /\ [][Next]_vars

\* the lifecycle operations of the manager, between initialize and shutdown
LifecycleNext ==
    \/ \E metadataDir \in DirNames : Initialize(metadataDir)
    \/ ScanForPlugins
    \/ \E pluginId \in Ids : LoadPlugin(pluginId)
    \/ \E pluginId \in Ids : UnloadPlugin(pluginId)
    \/ \E pluginId \in Ids : InitializePlugin(pluginId)
    \/ \E pluginId \in Ids : ActivatePlugin(pluginId)
    \/ \E pluginId \in Ids : DeactivatePlugin(pluginId)

LifecycleSpec == Init /\ [][LifecycleNext]_vars

\* ------------------------------------------------------------ bus actions
BusInitialize ==
    /\ ~crashed
    /\ Commit(busInitialize(Machine), "PluginCommunication::initialize", <<>>, <<>>)

BusShutdown ==
    /\ ~crashed
    /\ Commit(busShutdown(Machine), "PluginCommunication::shutdown", <<>>, <<>>)

RegisterMessageHandler(pluginId, messageType) ==
    /\ ~crashed
    /\ Commit(registerMessageHandler(Machine, pluginId, messageType),
              "registerMessageHandler", <<pluginId, messageType>>, <<>>)

UnregisterMessageHandler(pluginId, messageType) ==
    /\ ~crashed
    /\ Commit(unregisterMessageHandler(Machine, pluginId, messageType),
              "unregisterMessageHandler", <<pluginId, messageType>>, <<>>)

SendMessage(sender, receiver, messageType) ==
    /\ ~crashed
    /\ \E r \in sendMessage(Machine, sender, receiver, messageType) :
          Commit(r, "sendMessage", <<sender, receiver, messageType>>, <<>>)

BroadcastMessage(sender, messageType) ==
    /\ ~crashed
    /\ \E r \in broadcastMessage(Machine, sender, messageType) :
          Commit(r, "broadcastMessage", <<sender, messageType>>, r.responses)

\* the bus on its own, with any of the permission tables
BusNext ==
    \/ BusInitialize
    \/ BusShutdown
    \/ \E pluginId \in BusIds : \E messageType \in MessageTypes : RegisterMessageHandler(pluginId, messageType)
    \/ \E pluginId \in BusIds : \E messageType \in MessageTypes : UnregisterMessageHandler(pluginId, messageType)
    \/ \E sender \in BusIds : \E receiver \in BusIds : \E messageType \in MessageTypes :
          SendMessage(sender, receiver, messageType)
    \/ \E sender \in BusIds : \E messageType \in MessageTypes : BroadcastMessage(sender, messageType)

BusSpec == BusInit /\ [][BusNext]_vars

\* the manager loading and unloading plugins that register handlers
UnloadIds == {"A", "B"}

UnloadNext ==
    \/ Initialize("join")
    \/ BusInitialize
    \/ \E pluginId \in UnloadIds : LoadPlugin(pluginId)
    \/ \E pluginId \in UnloadIds : InitializePlugin(pluginId)
    \/ \E pluginId \in UnloadIds : UnloadPlugin(pluginId)
    \/ \E pluginId \in UnloadIds : \E messageType \in MessageTypes :
          RegisterMessageHandler(Chars(pluginId), messageType)

UnloadSpec == Init /\ [][UnloadNext]_vars

\* ---------------------------------------------------------------- threads
\* Two threads call the manager.  A call waits in its locker ("lock"), runs
\* to the first public operation it calls itself ("entered"), waits in the
\* locker of that one ("nestedLock"), leaves it ("nested"), runs the rest of
\* its body, reading the registry and invoking the hooks ("rest"), and
\* writes the registry as it leaves its own locker ("write").
\* the public operation op(arg) on the data m, the lock aside
Perform(m, op, arg) ==
    CASE op = "initialize" -> initialize(m, arg)
      [] op = "loadPlugin" -> loadPlugin(m, arg)
      [] op = "activatePlugin" -> activatePlugin(m, arg, 0)
      [] op = "deactivatePlugin" -> deactivatePlugin(m, arg, 0)
      [] op = "unloadPlugin" -> unloadPlugin(m, arg)

\* the first public operation that op calls while it holds the lock, "" when
\* it returns without calling one: isPluginLoaded follows the m_initialized
\* test of the plugin operations
FirstNestedCall(m, op) ==
    IF m.m_initialized /\ op \in {"loadPlugin", "activatePlugin", "deactivatePlugin", "unloadPlugin"}
    THEN "isPluginLoaded"
    ELSE ""

\* what a thread keeps of a result until it writes: the data and the return
\* value
Pending(r) == [m |-> [r.m EXCEPT !.log = <<>>], ret |-> r.ret]

\* the ids that the registered metadata of pluginId declares as dependencies
DepsOf(m, pluginId) ==
    LET deps == getPluginDependencies(MetaOf(m, pluginId))
    IN  {deps[i] : i \in 1..Len(deps)}

\* S and everything that an id of S depends on, directly or not
RECURSIVE DependencyClosure(_, _)
DependencyClosure(m, S) ==
    LET more == S \cup UNION {DepsOf(m, k) : k \in S}
    IN  IF more = S THEN S ELSE DependencyClosure(m, more)

\* observed by a call as it reads the registry: its plugin is loaded and
\* neither it nor anything it depends on has failed
ReadyIn(m, pluginId) ==
    /\ pluginId \in m.m_plugins
    /\ \A k \in DependencyClosure(m, {pluginId}) : StateOf(m, k) # "Failed"

\* observed by a call as it runs: every hook returned true, every module
\* was loaded, nothing was reported as failed
CleanRun(r) ==
    \A i \in 1..Len(r.m.log) :
        /\ r.m.log[i].kind = "hook" => r.m.log[i].out = "true"
        /\ r.m.log[i].kind = "loader" => r.m.log[i].out = "ok"
        /\ ~(r.m.log[i].kind = "signal" /\ r.m.log[i].name = "pluginFailed")

\* the thread is inside a call
InProgress(thread) == thread.pc \notin {"idle", "done"}

\* the thread read the registry and ran the body with result r
Ran(thread, r) ==
    IF thread.op = "activatePlugin"
    THEN [thread EXCEPT !.pc = "write", !.pending = Pending(r), !.clean = CleanRun(r),
                        !.ready = ReadyIn(Machine, thread.arg)]
    ELSE [thread EXCEPT !.pc = "write", !.pending = Pending(r)]

\* the call returned; what an activatePlugin returned and observed is kept
\* until the thread calls again
Returned(thread) ==
    IF thread.op = "activatePlugin"
    THEN [thread EXCEPT !.pc = "done", !.ret = thread.pending.ret, !.pending = <<>>]
    ELSE Idle

ThreadDir == "fork"

ThreadCalls ==
    {<<"initialize", ThreadDir>>} \cup ({"loadPlugin", "activatePlugin", "deactivatePlugin"} \X Ids)

Call(t, op, arg) ==
    /\ ~crashed
    /\ threads[t].pc \in {"idle", "done"}
    /\ threads' = [u \in Threads |->
                      IF u = t
                      THEN [Idle EXCEPT !.pc = "lock", !.op = op, !.arg = arg,
                                        !.overlap = \E o \in Threads \ {t} : InProgress(threads[o])]
                      ELSE [threads[u] EXCEPT !.overlap = @ /\ InProgress(threads[u])]]
    /\ UNCHANGED <<m_initialized, m_metadataDir, m_pluginMetadata, m_plugins, m_pluginLoaders,
                   m_pluginStates, busInitialized, m_handlers, m_pluginPermissions, m_mutex, busMutex,
                   crashed, lastCall, lastRet, lastFound, log>>

\* the constructor of the locker returns
Acquire(t) ==
    /\ ~crashed
    /\ threads[t].pc \in {"lock", "nestedLock"}
    /\ canLock(m_mutex, t)
    /\ m_mutex' = lock(m_mutex, t)
    /\ threads' = [threads EXCEPT ![t].pc = IF @ = "lock" THEN "entered" ELSE "nested"]
    /\ UNCHANGED <<m_initialized, m_metadataDir, m_pluginMetadata, m_plugins, m_pluginLoaders,
                   m_pluginStates, busInitialized, m_handlers, m_pluginPermissions, busMutex,
                   crashed, lastCall, lastRet, lastFound, log>>

\* the body up to its first call of a public operation, or all of it
Enter(t) ==
    /\ ~crashed
    /\ threads[t].pc = "entered"
    /\ IF FirstNestedCall(Machine, threads[t].op) # ""
       THEN threads' = [threads EXCEPT ![t].pc = "nestedLock"]
       ELSE \E r \in Perform(Machine, threads[t].op, threads[t].arg) :
               threads' = [threads EXCEPT ![t] = Ran(@, r)]
    /\ UNCHANGED <<m_initialized, m_metadataDir, m_pluginMetadata, m_plugins, m_pluginLoaders,
                   m_pluginStates, busInitialized, m_handlers, m_pluginPermissions, m_mutex, busMutex,
                   crashed, lastCall, lastRet, lastFound, log>>

\* the called operation returns and its locker lets go
NestedReturn(t) ==
    /\ ~crashed
    /\ threads[t].pc = "nested"
    /\ m_mutex' = unlock(m_mutex)
    /\ threads' = [threads EXCEPT ![t].pc = "rest"]
    /\ UNCHANGED <<m_initialized, m_metadataDir, m_pluginMetadata, m_plugins, m_pluginLoaders,
                   m_pluginStates, busInitialized, m_handlers, m_pluginPermissions, busMutex,
                   crashed, lastCall, lastRet, lastFound, log>>

\* the rest of the body: every further locker is entered the way the first was
Run(t) ==
    /\ ~crashed
    /\ threads[t].pc = "rest"
    /\ \E r \in Perform(Machine, threads[t].op, threads[t].arg) :
          threads' = [threads EXCEPT ![t] = Ran(@, r)]
    /\ UNCHANGED <<m_initialized, m_metadataDir, m_pluginMetadata, m_plugins, m_pluginLoaders,
                   m_pluginStates, busInitialized, m_handlers, m_pluginPermissions, m_mutex, busMutex,
                   crashed, lastCall, lastRet, lastFound, log>>

\* the assignments of the body reach the registry, and the destructor of
\* the locker lets go
Write(t) ==
    /\ ~crashed
    /\ threads[t].pc = "write"
    /\ m_initialized' = threads[t].pending.m.m_initialized
    /\ m_metadataDir' = threads[t].pending.m.m_metadataDir
    /\ m_pluginMetadata' = threads[t].pending.m.m_pluginMetadata
    /\ m_plugins' = threads[t].pending.m.m_plugins
    /\ m_pluginLoaders' = threads[t].pending.m.m_pluginLoaders
    /\ m_pluginStates' = threads[t].pending.m.m_pluginStates
    /\ crashed' = (threads[t].pending.ret = "crash")
    /\ m_mutex' = unlock(m_mutex)
    /\ threads' = [threads EXCEPT ![t] = Returned(@)]
    /\ UNCHANGED <<busInitialized, m_handlers, m_pluginPermissions, busMutex, lastCall, lastRet,
                   lastFound, log>>

ThreadNext ==
    \E t \in Threads :
        \/ \E c \in ThreadCalls : Call(t, c[1], c[2])
        \/ Acquire(t)
        \/ Enter(t)
        \/ NestedReturn(t)
        \/ Run(t)
        \/ Write(t)

\* the manager as built with either kind of lock
ThreadInit ==
    /\ InitRegistry
    /\ m_pluginPermissions = <<>>
    /\ m_mutex \in {Unlocked(kind) : kind \in MutexKinds}
    /\ busMutex = Unlocked("QRecursiveMutex")
    /\ threads = [t \in Threads |-> Idle]

ThreadSpec == ThreadInit /\ [][ThreadNext]_vars

\* ------------------------------------------ the manager and the bus, threads
\* One thread unloads a plugin while another sends or broadcasts a message.
\* unloadPlugin holds the manager's lock from its first line and, past the
\* shutdown hook, calls unregisterAllMessageHandlers, whose locker waits for
\* the lock of the bus ("unregisterLock").  sendMessage and broadcastMessage
\* wait for the lock of the bus ("dispatchLock") and hold it while the
\* handlers run ("dispatch"); a handler is plugin code and may call the
\* manager, whose operations all begin with the locker ("handlerLock").
\* Here the handler calls isPluginLoaded.  The host loads the plugins and
\* registers the handlers while no thread is inside a call.
Quiet == \A t \in Threads : threads[t].pc = "idle"

\* the plugin that is loaded and unloaded, and the plugins with a handler
DispatchIds == {"A"}

HandlerIds == {"A", "B"}

DispatchType == <<"y">>

\* what the host granted: A receives and broadcasts, B sends
DispatchGrants ==
    [pluginId \in BusIds |->
        IF pluginId = <<"A">> THEN {"communication.receive", "communication.broadcast"}
        ELSE IF pluginId = <<"B">> THEN {"communication.send"}
        ELSE {}]

\* the calls of the bus
DispatchCalls ==
    {<<"sendMessage", <<Chars(sender), <<"A">>, DispatchType>> >> : sender \in HandlerIds}
    \cup {<<"broadcastMessage", <<Chars(sender), DispatchType>> >> : sender \in HandlerIds}

\* the call of the bus op(arg) on the data m, the lock aside
Deliver(m, op, arg) ==
    IF op = "sendMessage" THEN sendMessage(m, arg[1], arg[2], arg[3])
    ELSE broadcastMessage(m, arg[1], arg[2])

\* the run r of unloadPlugin went past the shutdown hook, to the purge of the
\* handlers and the release of the module
ReachesUnregister(r, pluginId) ==
    \E i \in 1..Len(r.m.log) :
        r.m.log[i].kind = "loader" /\ r.m.log[i].name = "unload" /\ r.m.log[i].id = pluginId

\* the run r of a bus call invoked a handler
HandlerRan(r) == \E i \in 1..Len(r.m.log) : r.m.log[i].kind = "handler"

CallUnloadPlugin(t, pluginId) ==
    /\ ~crashed
    /\ threads[t].pc = "idle"
    /\ threads' = [threads EXCEPT ![t] = [Idle EXCEPT !.pc = "lock", !.op = "unloadPlugin",
                                                       !.arg = pluginId]]
    /\ UNCHANGED <<m_initialized, m_metadataDir, m_pluginMetadata, m_plugins, m_pluginLoaders,
                   m_pluginStates, busInitialized, m_handlers, m_pluginPermissions, m_mutex, busMutex,
                   crashed, lastCall, lastRet, lastFound, log>>

CallDispatch(t, op, arg) ==
    /\ ~crashed
    /\ threads[t].pc = "idle"
    /\ threads' = [threads EXCEPT ![t] = [Idle EXCEPT !.pc = "dispatchLock", !.op = op, !.arg = arg]]
    /\ UNCHANGED <<m_initialized, m_metadataDir, m_pluginMetadata, m_plugins, m_pluginLoaders,
                   m_pluginStates, busInitialized, m_handlers, m_pluginPermissions, m_mutex, busMutex,
                   crashed, lastCall, lastRet, lastFound, log>>

\* unloadPlugin after isPluginLoaded: it returns before line 410, or comes
\* to the call of unregisterAllMessageHandlers with the manager's lock held
RunUnloadPlugin(t) ==
    /\ ~crashed
    /\ threads[t].pc = "rest"
    /\ \E r \in unloadPlugin(Machine, threads[t].arg) :
          threads' = [threads EXCEPT ![t] = IF ReachesUnregister(r, threads[t].arg)
                                            THEN [threads[t] EXCEPT !.pc = "unregisterLock"]
                                            ELSE Ran(threads[t], r)]
    /\ UNCHANGED <<m_initialized, m_metadataDir, m_pluginMetadata, m_plugins, m_pluginLoaders,
                   m_pluginStates, busInitialized, m_handlers, m_pluginPermissions, m_mutex, busMutex,
                   crashed, lastCall, lastRet, lastFound, log>>

\* the constructor of a locker of the bus returns
LockBus(t) ==
    /\ ~crashed
    /\ threads[t].pc \in {"unregisterLock", "dispatchLock"}
    /\ canLock(busMutex, t)
    /\ busMutex' = lock(busMutex, t)
    /\ threads' = [threads EXCEPT ![t].pc = IF @ = "unregisterLock" THEN "unregister" ELSE "dispatch"]
    /\ UNCHANGED <<m_initialized, m_metadataDir, m_pluginMetadata, m_plugins, m_pluginLoaders,
                   m_pluginStates, busInitialized, m_handlers, m_pluginPermissions, m_mutex,
                   crashed, lastCall, lastRet, lastFound, log>>

\* unregisterAllMessageHandlers purges and returns; unloadPlugin goes on to
\* release the module
Unregister(t) ==
    /\ ~crashed
    /\ threads[t].pc = "unregister"
    /\ \E r \in {u \in unloadPlugin(Machine, threads[t].arg) : ReachesUnregister(u, threads[t].arg)} :
          /\ m_handlers' = r.m.m_handlers
          /\ threads' = [threads EXCEPT ![t] = Ran(threads[t], r)]
    /\ busMutex' = unlock(busMutex)
    /\ UNCHANGED <<m_initialized, m_metadataDir, m_pluginMetadata, m_plugins, m_pluginLoaders,
                   m_pluginStates, busInitialized, m_pluginPermissions, m_mutex,
                   crashed, lastCall, lastRet, lastFound, log>>

\* the body of sendMessage or broadcastMessage under the lock of the bus: a
\* handler that runs returns at once, or calls the manager first
Dispatch(t) ==
    /\ ~crashed
    /\ threads[t].pc = "dispatch"
    /\ \E r \in Deliver(Machine, threads[t].op, threads[t].arg) :
          \E callsManager \in IF HandlerRan(r) THEN BOOLEAN ELSE {FALSE} :
             threads' = [threads EXCEPT ![t].pc = IF callsManager THEN "handlerLock" ELSE "return",
                                        ![t].pending = Pending(r)]
    /\ UNCHANGED <<m_initialized, m_metadataDir, m_pluginMetadata, m_plugins, m_pluginLoaders,
                   m_pluginStates, busInitialized, m_handlers, m_pluginPermissions, m_mutex, busMutex,
                   crashed, lastCall, lastRet, lastFound, log>>

\* the locker of the manager operation that the handler called returns
LockFromHandler(t) ==
    /\ ~crashed
    /\ threads[t].pc = "handlerLock"
    /\ canLock(m_mutex, t)
    /\ m_mutex' = lock(m_mutex, t)
    /\ threads' = [threads EXCEPT ![t].pc = "handler"]
    /\ UNCHANGED <<m_initialized, m_metadataDir, m_pluginMetadata, m_plugins, m_pluginLoaders,
                   m_pluginStates, busInitialized, m_handlers, m_pluginPermissions, busMutex,
                   crashed, lastCall, lastRet, lastFound, log>>

\* isPluginLoaded, which the handler called, returns to it what it read
HandlerReturn(t) ==
    /\ ~crashed
    /\ threads[t].pc = "handler"
    /\ m_mutex' = unlock(m_mutex)
    /\ \E pluginId \in DispatchIds :
          threads' = [threads EXCEPT ![t].pc = "return",
                                     ![t].ret = IF isPluginLoaded(Machine, pluginId) THEN "true"
                                                ELSE "false"]
    /\ UNCHANGED <<m_initialized, m_metadataDir, m_pluginMetadata, m_plugins, m_pluginLoaders,
                   m_pluginStates, busInitialized, m_handlers, m_pluginPermissions, busMutex,
                   crashed, lastCall, lastRet, lastFound, log>>

\* the call of the bus returns and its locker lets go
DispatchReturn(t) ==
    /\ ~crashed
    /\ threads[t].pc = "return"
    /\ m_handlers' = threads[t].pending.m.m_handlers
    /\ busMutex' = unlock(busMutex)
    /\ threads' = [threads EXCEPT ![t] = Idle]
    /\ UNCHANGED <<m_initialized, m_metadataDir, m_pluginMetadata, m_plugins, m_pluginLoaders,
                   m_pluginStates, busInitialized, m_pluginPermissions, m_mutex,
                   crashed, lastCall, lastRet, lastFound, log>>

DispatchNext ==
    \/ Quiet /\ Initialize("join")
    \/ Quiet /\ BusInitialize
    \/ \E pluginId \in DispatchIds : Quiet /\ LoadPlugin(pluginId)
    \/ \E pluginId \in HandlerIds : Quiet /\ RegisterMessageHandler(Chars(pluginId), DispatchType)
    \/ \E t \in Threads :
          \/ \E pluginId \in DispatchIds : CallUnloadPlugin(t, pluginId)
          \/ \E c \in DispatchCalls : CallDispatch(t, c[1], c[2])
          \/ Acquire(t)
          \/ Enter(t)
          \/ NestedReturn(t)
          \/ RunUnloadPlugin(t)
          \/ LockBus(t)
          \/ Unregister(t)
          \/ Write(t)
          \/ Dispatch(t)
          \/ LockFromHandler(t)
          \/ HandlerReturn(t)
          \/ DispatchReturn(t)

\* the manager as built with either kind of lock, after the host's grants
DispatchInit ==
    /\ InitRegistry
    /\ m_pluginPermissions = DispatchGrants
    /\ m_mutex \in {Unlocked(kind) : kind \in MutexKinds}
    /\ busMutex = Unlocked("QRecursiveMutex")
    /\ threads = [t \in Threads |-> Idle]

DispatchSpec == DispatchInit /\ [][DispatchNext]_vars

\* ------------------------------------------------- descriptor validation
\* the manager on the directories whose descriptor of A has a required
\* field that is not a string
MetadataNext ==
    \/ \E metadataDir \in DOMAIN TypedDirs : Initialize(metadataDir)
    \/ ScanForPlugins
    \/ \E pluginId \in Ids : LoadPlugin(pluginId)

MetadataSpec == Init /\ [][MetadataNext]_vars

\* ------------------------------------------------------ dependency sort
\* sortPluginsByDependency reads the registered metadata only.  The registry
\* is what a scan of a directory left: for each id no descriptor, or a valid
\* one declaring a list of dependencies (any ids, the plugin's own included).
SeqsUpTo(S, n) == UNION {[1..k -> S] : k \in 0..n}

DependencyLists ==
    {d \in SeqsUpTo(Ids, MaxDeclared) : \A i \in 1..Len(d) : \A j \in 1..Len(d) : d[i] = d[j] => i = j}

SortRegistries ==
    {[k \in DOMAIN f |-> loadFromFile(JsonFile(Descriptor(k, f[k])))]
       : f \in UNION {[D -> DependencyLists] : D \in SUBSET Ids}}

\* the id lists handed to the sort
IdLists == SeqsUpTo(Ids, MaxInput)

SortInit ==
    /\ m_initialized = TRUE
    /\ m_metadataDir = ""
    /\ m_pluginMetadata \in SortRegistries
    /\ m_plugins = {}
    /\ m_pluginLoaders = {}
    /\ m_pluginStates = [x \in Ids |-> "NotLoaded"]
    /\ busInitialized = FALSE
    /\ m_handlers = <<>>
    /\ m_pluginPermissions = <<>>
    /\ crashed = FALSE
    /\ lastCall = <<"none", "">>
    /\ lastRet = "none"
    /\ lastFound = <<>>
    /\ log = <<>>
    /\ OneThread

SortPluginsByDependency(pluginIds) ==
    /\ lastCall' = <<"sortPluginsByDependency", pluginIds>>
    /\ lastFound' = sortPluginsByDependency(Machine, pluginIds)
    /\ lastRet' = "value"
    /\ log' = <<>>
    /\ UNCHANGED <<m_initialized, m_metadataDir, m_pluginMetadata, m_plugins, m_pluginLoaders,
                   m_pluginStates, busInitialized, m_handlers, m_pluginPermissions, m_mutex, busMutex,
                   threads, crashed>>

SortNext == \E pluginIds \in IdLists : SortPluginsByDependency(pluginIds)

SortSpec == SortInit /\ [][SortNext]_vars

\* ============================================================= properties
\* the registry part of the state
registry == <<m_initialized, m_pluginMetadata, m_plugins, m_pluginLoaders, m_pluginStates, m_handlers>>

\* the dependencies that the registered metadata of a plugin declares
DepSet(pluginId) ==
    LET deps == getPluginDependencies(MetaOf(Machine, pluginId))
    IN  {deps[i] : i \in 1..Len(deps)}

\* the dependencies that the descriptor file of a plugin declares
FileDepSet(pluginId) ==
    LET deps == DeclaredDeps(m_metadataDir, pluginId)
    IN  {deps[i] : i \in 1..Len(deps)}

\* the step is a call of op(pluginId)
Called(op, pluginId) == lastCall' = <<op, pluginId>>

IsHook(e, hook, pluginId) == e.kind = "hook" /\ e.name = hook /\ e.id = pluginId

IsSignal(e, signal, pluginId) == e.kind = "signal" /\ e.name = signal /\ e.id = pluginId

IsLoaderCall(e) == e.kind = "loader"

\* the state of a plugin as a log entry recorded it
StateAt(e, pluginId) == IF pluginId \in DOMAIN e.st THEN e.st[pluginId] ELSE "NotLoaded"

\* positions of the log at which signal(pluginId) was emitted
SignalAt(signal, pluginId) == {i \in 1..Len(log) : IsSignal(log[i], signal, pluginId)}

\* the registry holds exactly what the descriptor files say
MetadataIsFileContent ==
    \A k \in DOMAIN m_pluginMetadata :
        /\ m_pluginMetadata[k] = loadFromFile(FileOf(m_metadataDir, k))
        /\ m_pluginMetadata[k].m_isValid
        /\ getPluginId(m_pluginMetadata[k]) = k

\* ------------------------------------------------------------------- C1
\* C1: whenever the activate hook of a plugin B is invoked, every plugin A
\* that B's metadata declares as a dependency is Active at that moment, and
\* if A was not Active throughout the call, A's own activate hook returned
\* true and pluginActivated(A) was emitted earlier in the same call.
C1_DependenciesActiveBeforeActivateHook ==
    \A i \in 1..Len(log) : \A B \in Ids :
        IsHook(log[i], "activate", B) =>
            \A A \in DepSet(B) :
                /\ log[i].st[A] = "Active"
                /\ \/ \A j \in 1..i : log[j].st[A] = "Active"
                   \/ \E j \in 1..i : \E k \in 1..i :
                        /\ j < k /\ k < i
                        /\ IsHook(log[j], "activate", A) /\ log[j].out = "true"
                        /\ IsSignal(log[k], "pluginActivated", A)

\* activatePlugin(B) activated a dependency and then ran B's own hook
C1_Witness ==
    \E B \in Ids : \E i \in 1..Len(log) : \E j \in 1..Len(log) :
        /\ lastCall = <<"activatePlugin", B>>
        /\ IsHook(log[i], "activate", B)
        /\ j < i
        /\ log[j].id \in DepSet(B)
        /\ IsHook(log[j], "activate", log[j].id)

\* ------------------------------------------------------------------- C2
HasDependentMetadata(A) ==
    \E B \in DOMAIN m_pluginMetadata : B # A /\ dependsOn(m_pluginMetadata[B], A)

\* C2: unloadPlugin(A) on a loaded plugin A returns false and changes
\* nothing (state, instance, module handle; no hook, no signal) whenever the
\* registry holds metadata of another plugin that declares A as a
\* dependency, whatever the state of that plugin.
C2_UnloadBlockedByDependentMetadata ==
    [][\A A \in Ids :
        (Called("unloadPlugin", A) /\ isPluginLoaded(Machine, A) /\ HasDependentMetadata(A) /\ UnloadPlugin(A))
        => (lastRet' = "false" /\ UNCHANGED registry /\ log' = <<>>)]_vars

\* unloadPlugin(A) was refused although the only dependent is not loaded
C2_Witness ==
    \E A \in Ids :
        /\ lastCall = <<"unloadPlugin", A>>
        /\ lastRet = "false"
        /\ log = <<>>
        /\ isPluginLoaded(Machine, A)
        /\ HasDependentMetadata(A)
        /\ \A B \in DOMAIN m_pluginMetadata :
              (B # A /\ dependsOn(m_pluginMetadata[B], A)) => m_pluginStates[B] = "NotLoaded"

\* ------------------------------------------------------------------- C3
DependenciesOfActiveAreActive(st) ==
    \A B \in Ids : st[B] = "Active" => \A A \in FileDepSet(B) : A \in Ids /\ st[A] = "Active"

\* C3: in every state between and inside calls, whenever a plugin B is
\* Active every plugin that B's metadata declares as a dependency is Active.
C3_ActiveImpliesDependenciesActive ==
    /\ MetadataIsFileContent
    /\ DependenciesOfActiveAreActive(m_pluginStates)
    /\ \A i \in 1..Len(log) : DependenciesOfActiveAreActive(log[i].st)

\* deactivatePlugin(A) gave up because the deactivate hook of an active
\* dependent B failed: B and A are both still Active
C3_Witness ==
    \E A \in Ids : \E B \in Ids :
        /\ lastCall = <<"deactivatePlugin", A>>
        /\ lastRet = "false"
        /\ A \in DepSet(B)
        /\ m_pluginStates[B] = "Active"
        /\ m_pluginStates[A] = "Active"
        /\ \E i \in 1..Len(log) : IsHook(log[i], "deactivate", B) /\ log[i].out # "true"

\* ------------------------------------------------------------------- C4
JustSucceeded(op, pluginId) == lastCall = <<op, pluginId>> /\ lastRet = "true"

NoOpSuccess == lastRet' = "true" /\ UNCHANGED registry /\ log' = <<>>

\* C4: loadPlugin, initializePlugin or activatePlugin called again right
\* after it succeeded returns true, changes no state, calls neither the
\* loader nor a hook and emits no signal.
C4_RepeatedCallIsNoOp ==
    [][\A pluginId \in Ids :
        /\ (JustSucceeded("loadPlugin", pluginId) /\ LoadPlugin(pluginId)) => NoOpSuccess
        /\ (JustSucceeded("initializePlugin", pluginId) /\ InitializePlugin(pluginId)) => NoOpSuccess
        /\ (JustSucceeded("activatePlugin", pluginId) /\ ActivatePlugin(pluginId)) => NoOpSuccess]_vars

\* activatePlugin on an Active plugin returned true without doing anything
C4_Witness ==
    \E pluginId \in Ids :
        /\ lastCall = <<"activatePlugin", pluginId>>
        /\ lastRet = "true"
        /\ log = <<>>
        /\ m_pluginStates[pluginId] = "Active"

\* ------------------------------------------------------------------- C5
\* C5: a successful deactivatePlugin(id) right after a successful
\* activatePlugin(id) leaves the plugin Initialized and still loaded.
C5_ActivateDeactivateRoundTrip ==
    [][\A pluginId \in Ids :
        (JustSucceeded("activatePlugin", pluginId) /\ DeactivatePlugin(pluginId) /\ lastRet' = "true")
        => /\ m_pluginStates'[pluginId] = "Initialized"
           /\ pluginId \in m_plugins'
           /\ pluginId \in m_pluginLoaders']_vars

\* deactivatePlugin ran the hook of an Active plugin and succeeded
C5_Witness ==
    \E pluginId \in Ids :
        /\ lastCall = <<"deactivatePlugin", pluginId>>
        /\ lastRet = "true"
        /\ m_pluginStates[pluginId] = "Initialized"
        /\ \E i \in 1..Len(log) : IsHook(log[i], "deactivate", pluginId) /\ log[i].out = "true"

\* ------------------------------------------------------------------- C6
UnloadedOrder == SelectSeq(log, LAMBDA e : e.kind = "signal" /\ e.name = "pluginUnloaded")

\* shutdown() ran on the chain with all three plugins Active, and every
\* hook and every module release of the call succeeded
ShutdownOfActiveChain ==
    /\ lastCall[1] = "shutdown"
    /\ m_metadataDir = "chain"
    /\ Len(log) > 0
    /\ \A x \in Ids : log[1].st[x] = "Active"
    /\ \A i \in 1..Len(log) :
          /\ log[i].kind = "hook" => log[i].out = "true"
          /\ log[i].kind = "loader" => log[i].out = "ok"

\* C6: shutdown() of the active chain A<-B<-C releases the module of each
\* of the three plugins, in the order C, B, A.
C6_ShutdownUnloadsChainInReverse ==
    ShutdownOfActiveChain =>
        /\ Len(UnloadedOrder) = 3
        /\ UnloadedOrder[1].id = "C"
        /\ UnloadedOrder[2].id = "B"
        /\ UnloadedOrder[3].id = "A"

\* ------------------------------------------------------------------- C7
ValidFile(dir, pluginId) ==
    LET md == loadFromFile(FileOf(dir, pluginId))
    IN  FileOf(dir, pluginId).t # "nofile" /\ md.m_isValid /\ getPluginId(md) = pluginId

\* Foo has valid, framework-compatible metadata that declares a dependency
\* for which no valid metadata can be found
DeclaresUnavailableDependency(Foo) ==
    /\ m_initialized
    /\ Foo \notin m_plugins
    /\ ValidFile(m_metadataDir, Foo)
    /\ isCompatibleWithFramework(loadFromFile(FileOf(m_metadataDir, Foo)), m_frameworkVersion)
    /\ \E Bar \in FileDepSet(Foo) : Bar \notin DOMAIN m_pluginMetadata /\ ~ValidFile(m_metadataDir, Bar)

OnlySignal(l, signal, pluginId, msg) ==
    Len(l) = 1 /\ IsSignal(l[1], signal, pluginId) /\ l[1].out = msg

\* C7: loadPlugin(Foo), where Foo declares a dependency without valid
\* metadata, returns false, sets Foo to Failed, emits pluginFailed(Foo,
\* "Unsatisfied dependencies") and nothing else, never calls the module
\* loader and stores no instance.
C7_LoadFailsOnUnavailableDependency ==
    [][\A Foo \in Ids :
        (Called("loadPlugin", Foo) /\ DeclaresUnavailableDependency(Foo) /\ LoadPlugin(Foo))
        => /\ lastRet' = "false"
           /\ m_pluginStates'[Foo] = "Failed"
           /\ OnlySignal(log', "pluginFailed", Foo, "Unsatisfied dependencies")
           /\ Foo \notin m_plugins'
           /\ Foo \notin m_pluginLoaders']_vars

\* loadPlugin(Foo) failed because the file of its dependency does not exist
C7_Witness ==
    \E Foo \in Ids : \E Bar \in FileDepSet(Foo) :
        /\ lastCall = <<"loadPlugin", Foo>>
        /\ lastRet = "false"
        /\ FileOf(m_metadataDir, Bar).t = "nofile"
        /\ m_pluginStates[Foo] = "Failed"
        /\ OnlySignal(log, "pluginFailed", Foo, "Unsatisfied dependencies")

\* ------------------------------------------------------------------- C8
\* X is in the registry, not loaded, and asks for framework 99.0.0
ScannedTooNew(X) ==
    /\ m_initialized
    /\ X \in DOMAIN m_pluginMetadata
    /\ X \notin m_plugins
    /\ getMinFrameworkVersion(m_pluginMetadata[X]) = V99

\* C8 as stated: activatePlugin(X) on a scanned, not loaded plugin X whose
\* minFrameworkVersion exceeds the framework version returns false with the
\* incompatible-version reason and leaves X Failed.
C8_ActivateFailsIncompatible ==
    [][\A X \in Ids :
        (Called("activatePlugin", X) /\ ScannedTooNew(X) /\ ActivatePlugin(X))
        => /\ lastRet' = "false"
           /\ m_pluginStates'[X] = "Failed"
           /\ OnlySignal(log', "pluginFailed", X, "Incompatible with framework version")]_vars

\* C8 amended: it is loadPlugin(X) that returns false with the
\* incompatible-version reason and leaves X Failed; activatePlugin(X)
\* returns false because X is not loaded, changes no state and emits nothing.
C8_LoadFailsIncompatible ==
    [][\A X \in Ids :
        /\ (Called("loadPlugin", X) /\ ScannedTooNew(X) /\ LoadPlugin(X))
           => /\ lastRet' = "false"
              /\ m_pluginStates'[X] = "Failed"
              /\ OnlySignal(log', "pluginFailed", X, "Incompatible with framework version")
              /\ X \notin m_plugins'
        /\ (Called("activatePlugin", X) /\ ScannedTooNew(X) /\ ActivatePlugin(X))
           => (lastRet' = "false" /\ UNCHANGED registry /\ log' = <<>>)]_vars

\* loadPlugin(X) refused a scanned plugin that asks for framework 99.0.0
C8_Witness ==
    \E X \in Ids :
        /\ lastCall = <<"loadPlugin", X>>
        /\ lastRet = "false"
        /\ X \in DOMAIN m_pluginMetadata
        /\ getMinFrameworkVersion(m_pluginMetadata[X]) = V99
        /\ m_pluginStates[X] = "Failed"
        /\ OnlySignal(log, "pluginFailed", X, "Incompatible with framework version")

\* ------------------------------------------------------------------- C9
OwnHookFailed(hook, X) == \E i \in 1..Len(log) : IsHook(log[i], hook, X) /\ log[i].out # "true"

\* C9: when the initialize hook of X returns false or throws (any of the
\* three kinds) inside initializePlugin(X), the call returns false, X is
\* Failed, exactly one pluginFailed(X) and no pluginInitialized(X) is emitted.
C9_InitializeHookFailure ==
    \A X \in Ids :
        (lastCall = <<"initializePlugin", X>> /\ OwnHookFailed("initialize", X))
        => /\ lastRet = "false"
           /\ m_pluginStates[X] = "Failed"
           /\ Cardinality(SignalAt("pluginFailed", X)) = 1
           /\ SignalAt("pluginInitialized", X) = {}

\* the initialize hook of X threw something that is not a std::exception
C9_Witness ==
    \E X \in Ids : \E i \in 1..Len(log) :
        /\ lastCall = <<"initializePlugin", X>>
        /\ IsHook(log[i], "initialize", X)
        /\ log[i].out = "throws"
        /\ log[i].arg = "unknown"
        /\ m_pluginStates[X] = "Failed"

\* ------------------------------------------------------------------ C10
\* C10: when the deactivate hook of an Active plugin returns false or throws
\* inside deactivatePlugin(id), the call returns false, the plugin stays
\* Active, no pluginFailed or pluginDeactivated is emitted for it, and a
\* deactivatePlugin(id) that follows invokes the hook again.
C10_DeactivateHookFailureIsRetriable ==
    /\ [](\A pluginId \in Ids :
            (lastCall = <<"deactivatePlugin", pluginId>> /\ OwnHookFailed("deactivate", pluginId))
            => /\ lastRet = "false"
               /\ m_pluginStates[pluginId] = "Active"
               /\ pluginId \in m_plugins
               /\ SignalAt("pluginFailed", pluginId) = {}
               /\ SignalAt("pluginDeactivated", pluginId) = {})
    /\ [][\A pluginId \in Ids :
            (lastCall = <<"deactivatePlugin", pluginId>> /\ OwnHookFailed("deactivate", pluginId)
               /\ DeactivatePlugin(pluginId))
            => \E i \in 1..Len(log') : IsHook(log'[i], "deactivate", pluginId)]_vars

\* the deactivate hook threw and the plugin is still Active
C10_Witness ==
    \E pluginId \in Ids : \E i \in 1..Len(log) :
        /\ lastCall = <<"deactivatePlugin", pluginId>>
        /\ IsHook(log[i], "deactivate", pluginId)
        /\ log[i].out = "throws"
        /\ lastRet = "false"
        /\ m_pluginStates[pluginId] = "Active"

\* ------------------------------------------------------------------ C11
\* C11 as stated: deactivatePlugin(id) on a plugin whose state is not Active
\* (not loaded included) returns true, invokes no hook, emits no signal and
\* changes no state.
C11_DeactivateOfNonActiveIsNoOpSuccess ==
    [][\A pluginId \in Ids :
        (Called("deactivatePlugin", pluginId) /\ m_initialized /\ m_pluginStates[pluginId] # "Active"
           /\ DeactivatePlugin(pluginId))
        => NoOpSuccess]_vars

\* C11 amended: on a loaded plugin that is not Active deactivatePlugin(id)
\* returns true and does nothing; on a plugin that is not loaded it returns
\* false, and also invokes no hook, emits no signal and changes no state.
C11_DeactivateOfLoadedNonActiveIsNoOp ==
    [][\A pluginId \in Ids :
        /\ (Called("deactivatePlugin", pluginId) /\ m_initialized /\ pluginId \in m_plugins
               /\ m_pluginStates[pluginId] # "Active" /\ DeactivatePlugin(pluginId))
           => NoOpSuccess
        /\ (Called("deactivatePlugin", pluginId) /\ pluginId \notin m_plugins
               /\ DeactivatePlugin(pluginId))
           => (lastRet' = "false" /\ UNCHANGED registry /\ log' = <<>>)]_vars

\* deactivatePlugin returned true on a loaded plugin that was not Active
C11_Witness ==
    \E pluginId \in Ids :
        /\ lastCall = <<"deactivatePlugin", pluginId>>
        /\ lastRet = "true"
        /\ log = <<>>
        /\ pluginId \in m_plugins
        /\ m_pluginStates[pluginId] \in {"Loaded", "Initialized", "Failed"}

\* ------------------------------------------------------------------ C12
HookThrew == \E i \in 1..Len(log) : log[i].kind = "hook" /\ log[i].out = "throws"

\* C12: when a plugin hook (initialize, activate, deactivate, shutdown,
\* executeCommand) throws inside a manager operation, nothing escapes: the
\* operation returns its ordinary failure or empty result.
C12_NoHookFailureEscapes ==
    HookThrew => lastRet \in {"false", "empty", "void"}

\* ------------------------------------------------------------------ C13
\* C13: whenever activatePlugin(id) on a loaded plugin returns false, the
\* state of id afterwards is Failed.
C13_FailedActivateLeavesFailed ==
    \A pluginId \in Ids :
        (lastCall = <<"activatePlugin", pluginId>> /\ lastRet = "false" /\ pluginId \in m_plugins)
        => m_pluginStates[pluginId] = "Failed"

\* ------------------------------------------------------------------ C14
\* the descriptor file <k>.json is a JSON object with the four required
\* fields whose id is the string k
DescriptorPasses(dir, k) ==
    LET file == FileOf(dir, k)
    IN  /\ file.t = "object"
        /\ {"id", "name", "version", "vendor"} \subseteq DOMAIN file.v
        /\ file.v["id"] = JStr(k)

\* C14: every metadata entry stored under key k has id, name, version and
\* vendor present and reports k as its id, and scanForPlugins returns,
\* each once, exactly the ids whose descriptors pass these checks.
C14_RegistryHoldsOnlyValidMetadata ==
    /\ \A k \in DOMAIN m_pluginMetadata :
          /\ {"id", "name", "version", "vendor"} \subseteq DOMAIN m_pluginMetadata[k].m_metadata
          /\ m_pluginMetadata[k].m_metadata["id"] = JStr(k)
    /\ (lastCall[1] = "scanForPlugins" /\ m_initialized)
         => /\ {lastFound[i] : i \in 1..Len(lastFound)} = {k \in Ids : DescriptorPasses(m_metadataDir, k)}
            /\ Len(lastFound) = Cardinality({lastFound[i] : i \in 1..Len(lastFound)})
            /\ {lastFound[i] : i \in 1..Len(lastFound)} \subseteq DOMAIN m_pluginMetadata

\* a scan accepted one descriptor and rejected another that is present
C14_Witness ==
    /\ lastCall[1] = "scanForPlugins"
    /\ lastFound # <<>>
    /\ \E k \in Ids :
          /\ FileOf(m_metadataDir, k).t = "object"
          /\ k \notin DOMAIN m_pluginMetadata

\* ------------------------------------------------------------------ C15
\* C15: scanForPlugins changes no plugin's state, instance or module handle.
C15_ScanKeepsStates ==
    [][(lastCall'[1] = "scanForPlugins" /\ ScanForPlugins)
        => UNCHANGED <<m_pluginStates, m_plugins, m_pluginLoaders>>]_vars

\* a scan found descriptors while a plugin was Active and another Failed
C15_Witness ==
    /\ lastCall[1] = "scanForPlugins"
    /\ lastFound # <<>>
    /\ \E a \in Ids : m_pluginStates[a] = "Active"
    /\ \E b \in Ids : m_pluginStates[b] = "Failed"

\* ------------------------------------------------------------------ C16
\* C16: the executeCommand entry point of a plugin is invoked only while the
\* plugin is Active; executePluginCommand(id) in any other state returns an
\* empty result, invokes nothing and changes no state.
C16_ExecuteCommandOnlyWhenActive ==
    /\ [](\A i \in 1..Len(log) : \A pluginId \in Ids :
            IsHook(log[i], "executeCommand", pluginId) => log[i].st[pluginId] = "Active")
    /\ [][\A pluginId \in Ids :
            (Called("executePluginCommand", pluginId) /\ m_pluginStates[pluginId] # "Active"
               /\ ExecutePluginCommand(pluginId))
            => (lastRet' = "empty" /\ UNCHANGED registry /\ log' = <<>>)]_vars

\* a command was refused on an Initialized plugin
C16_Witness ==
    \E pluginId \in Ids :
        /\ lastCall = <<"executePluginCommand", pluginId>>
        /\ lastRet = "empty"
        /\ log = <<>>
        /\ m_pluginStates[pluginId] = "Initialized"

\* ------------------------------------------------------------------ C17
\* the keys of the handlers that were registered by plugin id
HandlersOf(pluginId) == {k \in DOMAIN m_handlers : m_handlers[k][1] = pluginId}

\* the call asked the loader to release the module of pluginId
ReleaseAttempted(pluginId) ==
    \E i \in 1..Len(log) : log[i].kind = "loader" /\ log[i].name = "unload" /\ log[i].id = pluginId

\* C17: after an unloadPlugin(id) that reached the release of the module,
\* whether the release succeeded or failed, no handler registered by id is
\* left in the handler table.
C17_UnloadPurgesHandlers ==
    \A pluginId \in Ids :
        (lastCall[1] = "unloadPlugin" /\ lastCall[2] = pluginId /\ ReleaseAttempted(pluginId))
        => HandlersOf(Chars(pluginId)) = {}

\* ------------------------------------------------------------------ C18
\* a handler registered for exactly this pair is in the table
PairRegistered(pluginId, messageType) ==
    \E k \in DOMAIN m_handlers : m_handlers[k] = Handler(pluginId, messageType)

\* C18: on an initialized bus registerMessageHandler(pluginId, messageType)
\* returns false and leaves the table as it is when a handler of that very
\* pair is registered, and returns true and adds the handler when none is,
\* whatever other pairs are registered.
C18_RegisterFailsOnlyOnSamePair ==
    [][\A pluginId \in BusIds : \A messageType \in MessageTypes :
        (lastCall'[1] = "registerMessageHandler" /\ lastCall'[2] = <<pluginId, messageType>>
           /\ busInitialized /\ RegisterMessageHandler(pluginId, messageType))
        => IF PairRegistered(pluginId, messageType)
           THEN lastRet' = "false" /\ UNCHANGED m_handlers
           ELSE lastRet' = "true" /\ PairRegistered(pluginId, messageType)']_vars

\* ------------------------------------------------------------------ C19
HandlerCalls == {i \in 1..Len(log) : log[i].kind = "handler"}

\* C19: sendMessage(sender, receiver, messageType) invokes a handler only if
\* the sender holds communication.send, the receiver holds
\* communication.receive and a handler is registered for (receiver,
\* messageType), and then it is that handler; if one of the three fails the
\* call returns an empty result, invokes nothing and emits nothing.
C19_SendOnlyToRegisteredReceiver ==
    \A sender \in BusIds : \A receiver \in BusIds : \A messageType \in MessageTypes :
        (lastCall[1] = "sendMessage" /\ lastCall[2] = <<sender, receiver, messageType>>)
        => LET allowed == /\ hasPermission(Machine, sender, "communication.send")
                          /\ hasPermission(Machine, receiver, "communication.receive")
                          /\ PairRegistered(receiver, messageType)
           IN  /\ \A i \in HandlerCalls : allowed /\ log[i].id = Handler(receiver, messageType)
               /\ ~allowed => (lastRet = "empty" /\ log = <<>>)

\* ------------------------------------------------------------------ C20
\* the plugins that registered a handler for messageType and may receive
Receivers(messageType) ==
    {r \in BusIds : PairRegistered(r, messageType) /\ hasPermission(Machine, r, "communication.receive")}

\* C20: a broadcastMessage(sender, messageType) by a sender that holds
\* communication.broadcast, all of whose handlers return, returns a map whose
\* keys are exactly the plugins that registered a handler for messageType
\* and hold communication.receive, and invokes the handler of each once.
C20_BroadcastReachesExactlyTheReceivers ==
    \A sender \in BusIds : \A messageType \in MessageTypes :
        (lastCall[1] = "broadcastMessage" /\ lastCall[2] = <<sender, messageType>>
           /\ busInitialized /\ hasPermission(Machine, sender, "communication.broadcast")
           /\ \A i \in HandlerCalls : log[i].out # "throws")
        => /\ lastRet = "map"
           /\ DOMAIN lastFound = Receivers(messageType)
           /\ \A r \in Receivers(messageType) :
                 Cardinality({i \in HandlerCalls : log[i].id = Handler(r, messageType)}) = 1

\* ------------------------------------------------------------------ C21
\* C21: the manager's lock is re-entrant: a thread that holds it and calls a
\* public operation of the manager from inside a lifecycle operation is let
\* in by the locker of the called operation, so that no call waits for the
\* lock its own thread holds.
C21_LockIsReentrant ==
    \A t \in Threads :
        (threads[t].pc = "nestedLock" /\ m_mutex.owner = t) => canLock(m_mutex, t)

\* ------------------------------------------------------------------ C22
\* neither plugin depends on the other, directly or through others
Unrelated(X, Y) ==
    /\ X # Y
    /\ X \notin DependencyClosure(Machine, {Y})
    /\ Y \notin DependencyClosure(Machine, {X})

\* thread t returned from activatePlugin(X); X was loaded, nothing X needs
\* had failed, and every hook and module load of the call succeeded
Activated(t, X) ==
    /\ threads[t].pc = "done"
    /\ threads[t].op = "activatePlugin"
    /\ threads[t].arg = X
    /\ threads[t].ready
    /\ threads[t].clean

\* the two threads returned from calls that ran at the same time
ConcurrentActivations(X, Y) ==
    /\ Activated("t1", X)
    /\ Activated("t2", Y)
    /\ Unrelated(X, Y)
    /\ threads["t1"].overlap \/ threads["t2"].overlap

\* the registry a result leaves
RegistryOf(m) == <<m.m_initialized, m.m_pluginMetadata, m.m_plugins, m.m_pluginLoaders, m.m_pluginStates>>

\* the next step of thread t can be taken
CanStep(t) ==
    \/ threads[t].pc \in {"lock", "nestedLock"} /\ canLock(m_mutex, t)
    \/ threads[t].pc \in {"entered", "nested", "rest", "write"}

C24_NotLoadedFailsFast ==
    [][\A pluginId \in Ids :
        /\ (Called("initializePlugin", pluginId) /\ pluginId \notin m_plugins /\ InitializePlugin(pluginId))
           => (lastRet' = "false" /\ UNCHANGED registry /\ log' = <<>>)
        /\ (Called("activatePlugin", pluginId) /\ pluginId \notin m_plugins /\ ActivatePlugin(pluginId))
           => (lastRet' = "false" /\ UNCHANGED registry /\ log' = <<>>)]_vars

\* initializePlugin was refused on a scanned plugin that was never loaded
C24_Witness ==
    \E pluginId \in Ids :
        /\ lastCall = <<"initializePlugin", pluginId>>
        /\ lastRet = "false"
        /\ log = <<>>
        /\ m_initialized
        /\ pluginId \in DOMAIN m_pluginMetadata
        /\ pluginId \notin m_plugins
        /\ m_pluginStates[pluginId] = "NotLoaded"

\* ------------------------------------------------------------------ C25
\* the entry records a module load or an initialize hook of pluginId
TouchedBy(e, pluginId) ==
    /\ e.id = pluginId
    /\ \/ e.kind = "loader" /\ e.name = "load"
       \/ e.kind = "hook" /\ e.name = "initialize"

\* C25: whenever the initialize hook of a plugin B is invoked, every
\* dependency that B declares is loaded and Initialized or Active; and in
\* initializePlugin(B) a dependency that was not loaded before the call had
\* its module loaded earlier in the call, and the dependencies are taken in
\* declared order: when a dependency is loaded or initialized, those
\* declared before it are Initialized or Active.
C25_DependenciesInitializedFirst ==
    /\ [](\A i \in 1..Len(log) : \A B \in Ids :
            IsHook(log[i], "initialize", B) =>
                \A A \in DepSet(B) :
                    A \in log[i].loaded /\ StateAt(log[i], A) \in {"Initialized", "Active"})
    /\ [][\A B \in Ids :
            (Called("initializePlugin", B) /\ InitializePlugin(B))
            => \A i \in 1..Len(log') :
                 IsHook(log'[i], "initialize", B) =>
                    LET deps == getPluginDependencies(MetaOf(Machine, B))
                    IN  \A q \in 1..Len(deps) :
                          /\ deps[q] \notin m_plugins
                               => \E j \in 1..(i - 1) :
                                     /\ log'[j].kind = "loader" /\ log'[j].name = "load"
                                     /\ log'[j].id = deps[q] /\ log'[j].out = "ok"
                          /\ \A p \in 1..(q - 1) : \A j \in 1..(i - 1) :
                                TouchedBy(log'[j], deps[q])
                                => StateAt(log'[j], deps[p]) \in {"Initialized", "Active"}]_vars

\* initializePlugin(C) of the join loaded and initialized A, then loaded and
\* initialized B, then ran the hook of C
C25_Witness ==
    /\ lastCall = <<"initializePlugin", "C">>
    /\ m_metadataDir = "join"
    /\ lastRet = "true"
    /\ Len(log) >= 5
    /\ log[1].kind = "loader" /\ log[1].id = "A"
    /\ \E i \in 1..Len(log) : \E j \in 1..Len(log) : \E k \in 1..Len(log) :
          /\ i < j /\ j < k
          /\ IsHook(log[i], "initialize", "A")
          /\ log[j].kind = "loader" /\ log[j].id = "B"
          /\ IsHook(log[k], "initialize", "C")

\* ------------------------------------------------------------------ C26
\* the state of a plugin in the step's second state
StateAfter(pluginId) ==
    IF pluginId \in DOMAIN m_pluginStates' THEN m_pluginStates'[pluginId] ELSE "NotLoaded"

\* the entry records a module load of pluginId that did not give a plugin
LoadFailedAt(e, pluginId) ==
    e.kind = "loader" /\ e.name = "load" /\ e.id = pluginId /\ e.out # "ok"

\* the step is an initializePlugin(B) that went into its dependencies and
\* left one of them neither Initialized nor Active: loading or initializing
\* it failed (a call that ended without a failed load is a recursion that
\* found no end, not a failure)
DependencyFailedIn(B) ==
    /\ Called("initializePlugin", B) /\ InitializePlugin(B)
    /\ m_initialized /\ B \in m_plugins
    /\ StateOf(Machine, B) \notin {"Initialized", "Active", "Failed"}
    /\ \E A \in DepSet(B) : StateAfter(A) \notin {"Initialized", "Active"}
    /\ lastRet' = "crash"
         => Len(log') > 0 /\ \E A \in Ids : LoadFailedAt(log'[Len(log')], A)

\* C26: when loading or initializing a dependency fails inside
\* initializePlugin(B), the call returns false, B is Failed, the last thing
\* the call did is to emit pluginFailed for B, the initialize hook of B was
\* not invoked, and every other plugin has the state that the failed
\* operation on the dependency left.
C26_DependencyFailureFailsPlugin ==
    [][\A B \in Ids :
         DependencyFailedIn(B)
         => LET n == Len(log')
            IN  /\ lastRet' = "false"
                /\ StateAfter(B) = "Failed"
                /\ n > 0 /\ IsSignal(log'[n], "pluginFailed", B)
                /\ \A i \in 1..n : ~IsHook(log'[i], "initialize", B)
                /\ \A A \in Ids \ {B} :
                      StateAfter(A) = IF n > 1 THEN StateAt(log'[n - 1], A)
                                      ELSE StateOf(Machine, A)]_vars

\* the same for the calls that return
C26_DependencyFailureOfReturningCall ==
    [][\A B \in Ids :
         (DependencyFailedIn(B) /\ lastRet' # "crash")
         => LET n == Len(log')
            IN  /\ lastRet' = "false"
                /\ StateAfter(B) = "Failed"
                /\ n > 0 /\ IsSignal(log'[n], "pluginFailed", B)
                /\ \A i \in 1..n : ~IsHook(log'[i], "initialize", B)
                /\ \A A \in Ids \ {B} :
                      StateAfter(A) = IF n > 1 THEN StateAt(log'[n - 1], A)
                                      ELSE StateOf(Machine, A)]_vars

\* ------------------------------------------------------------------ C27
\* C27: loadPlugin(id), whatever it returns, leaves every other plugin with
\* its state, its instance and its module handle, loads no module but that
\* of id, keeps the metadata that was registered, and registers metadata
\* for no plugin other than id and the dependencies that id declares.
C27_LoadNeverLoadsDependency ==
    [][\A id \in Ids :
         (Called("loadPlugin", id) /\ LoadPlugin(id))
         => /\ \A k \in Ids \ {id} :
                  /\ StateAfter(k) = StateOf(Machine, k)
                  /\ (k \in m_plugins') = (k \in m_plugins)
                  /\ (k \in m_pluginLoaders') = (k \in m_pluginLoaders)
            /\ \A i \in 1..Len(log') : IsLoaderCall(log'[i]) => log'[i].id = id
            /\ \A k \in DOMAIN m_pluginMetadata :
                  k \in DOMAIN m_pluginMetadata' /\ m_pluginMetadata'[k] = m_pluginMetadata[k]
            /\ \A k \in (DOMAIN m_pluginMetadata') \ (DOMAIN m_pluginMetadata) :
                  k = id \/ (id \in DOMAIN m_pluginMetadata'
                              /\ dependsOn(m_pluginMetadata'[id], k))]_vars

\* loadPlugin(B) of the chain succeeded: the metadata of its dependency A is
\* registered and A is not loaded
C27_Witness ==
    /\ lastCall = <<"loadPlugin", "B">>
    /\ lastRet = "true"
    /\ m_metadataDir = "chain"
    /\ "B" \in m_plugins
    /\ "A" \in DOMAIN m_pluginMetadata
    /\ "A" \notin m_plugins /\ "A" \notin m_pluginLoaders
    /\ StateOf(Machine, "A") = "NotLoaded"
    /\ \E i \in 1..Len(log) : IsLoaderCall(log[i])

\* ------------------------------------------------------------------ C28
\* the plugins whose registered metadata depends on A, directly or through
\* other plugins
TransitiveDependents(A) ==
    {X \in Ids \ {A} : A \in DependencyClosure(Machine, DepsOf(Machine, X))}

\* C28: in deactivatePlugin(A) on an Active A, when the deactivate hook of A
\* is invoked the deactivate hook of every plugin that was Active at the
\* call and depends on A, directly or transitively, has returned true
\* earlier in the call; when the call returns true no plugin that depends on
\* A is Active; and whenever a deactivate hook of any plugin is invoked, no
\* plugin that depends on it is Active.
C28_DependentsDeactivatedFirst ==
    /\ [][\A A \in Ids :
            (/\ Called("deactivatePlugin", A) /\ DeactivatePlugin(A)
             /\ m_initialized /\ A \in m_plugins /\ StateOf(Machine, A) = "Active")
            => /\ \A i \in 1..Len(log') :
                     IsHook(log'[i], "deactivate", A)
                     => \A X \in TransitiveDependents(A) :
                           StateOf(Machine, X) = "Active"
                           => \E j \in 1..(i - 1) :
                                 IsHook(log'[j], "deactivate", X) /\ log'[j].out = "true"
               /\ lastRet' = "true"
                     => \A X \in TransitiveDependents(A) : StateAfter(X) # "Active"]_vars
    /\ [](\A i \in 1..Len(log) : \A P \in Ids :
            IsHook(log[i], "deactivate", P)
            => \A X \in TransitiveDependents(P) : StateAt(log[i], X) # "Active")

\* deactivatePlugin(A) on the active chain ran the hooks of C, of B and of A,
\* in that order
C28_Witness ==
    /\ lastCall = <<"deactivatePlugin", "A">>
    /\ lastRet = "true"
    /\ m_metadataDir = "chain"
    /\ \E i \in 1..Len(log) : \E j \in 1..Len(log) : \E k \in 1..Len(log) :
          /\ i < j /\ j < k
          /\ IsHook(log[i], "deactivate", "C") /\ log[i].out = "true"
          /\ IsHook(log[j], "deactivate", "B") /\ log[j].out = "true"
          /\ IsHook(log[k], "deactivate", "A") /\ log[k].out = "true"
    /\ \A k \in Ids : StateOf(Machine, k) = "Initialized"

\* ------------------------------------------------------------------ C29
\* the elements of a sequence
Range(seq) == {seq[i] : i \in 1..Len(seq)}

\* no id reached from the ids of S depends on itself, directly or through
\* other plugins
AcyclicFrom(S) ==
    \A X \in DependencyClosure(Machine, S) :
        X \notin DependencyClosure(Machine, DepsOf(Machine, X))

\* C29: sortPluginsByDependency(ids) returns every id of the input and
\* every id reached from it through declared dependencies exactly once,
\* whether or not the metadata has a cycle or a self-dependency; and when
\* it has none, every id comes after all the dependencies it declares.
C29_SortIsTopological ==
    lastCall[1] = "sortPluginsByDependency"
    => LET pluginIds == lastCall[2]
           sorted == lastFound
       IN  /\ Range(sorted) = DependencyClosure(Machine, Range(pluginIds))
           /\ \A i \in 1..Len(sorted) : \A j \in 1..Len(sorted) : sorted[i] = sorted[j] => i = j
           /\ AcyclicFrom(Range(pluginIds))
                => \A i \in 1..Len(sorted) : \A dep \in DepsOf(Machine, sorted[i]) :
                      \E j \in 1..(i - 1) : sorted[j] = dep

\* the sort of <<C, A>> where C declares B and B declares A
C29_Witness ==
    /\ lastCall = <<"sortPluginsByDependency", <<"C", "A">> >>
    /\ DepsOf(Machine, "C") = {"B"} /\ DepsOf(Machine, "B") = {"A"}
    /\ "A" \in DOMAIN m_pluginMetadata /\ DepsOf(Machine, "A") = {}
    /\ lastFound = <<"A", "B", "C">>

\* the sort of <<A>> where A declares B and B declares A returned
C29_CycleWitness ==
    /\ lastCall = <<"sortPluginsByDependency", <<"A">> >>
    /\ DepsOf(Machine, "A") = {"B"} /\ DepsOf(Machine, "B") = {"A"}
    /\ lastFound = <<"B", "A">>

\* ------------------------------------------------------------------ C30
\* the registered metadata makes A depend on itself, directly or through
\* other plugins
OnCycle(A) == A \in DependencyClosure(Machine, DepsOf(Machine, A))

\* the entry records that the module of a plugin is missing or did not give
\* a plugin
ModuleFailedAt(e) ==
    \/ IsLoaderCall(e) /\ e.out # "ok"
    \/ e.kind = "signal" /\ e.name = "pluginFailed" /\ e.out = "Plugin library not found"

\* the step is op(A) on a plugin in state Loaded that is on a cycle none of
\* whose plugins is loaded and Failed, and every module that the call loads
\* gives its plugin
CalledOnCycle(op, A) ==
    /\ Called(op, A)
    /\ m_initialized /\ A \in m_plugins /\ StateOf(Machine, A) = "Loaded"
    /\ OnCycle(A)
    /\ \A k \in DependencyClosure(Machine, {A}) : ~(k \in m_plugins /\ StateOf(Machine, k) = "Failed")
    /\ \A i \in 1..Len(log') : ~ModuleFailedAt(log'[i])

\* C30: with a dependency cycle through A and loadable modules,
\* initializePlugin(A) and activatePlugin(A) on a Loaded A nest their calls
\* without end: the call gives no result, neither true nor false, invokes
\* no hook and reports no failure.
C30_CycleRecursesWithoutBound ==
    [][\A A \in Ids : \A op \in {"initializePlugin", "activatePlugin"} :
         CalledOnCycle(op, A)
         => /\ lastRet' = "crash" /\ crashed'
            /\ \A i \in 1..Len(log') :
                  log'[i].kind # "hook" /\ ~(log'[i].kind = "signal" /\ log'[i].name = "pluginFailed")]_vars

\* initializePlugin(A) of the cycle A <-> B loaded the module of B and did
\* not return
C30_Witness ==
    /\ lastCall = <<"initializePlugin", "A">>
    /\ m_metadataDir = "cyclic"
    /\ crashed /\ lastRet = "crash"
    /\ {"A", "B"} \subseteq m_plugins
    /\ StateOf(Machine, "A") = "Loaded" /\ StateOf(Machine, "B") = "Loaded"
    /\ \E i \in 1..Len(log) : IsLoaderCall(log[i]) /\ log[i].id = "B" /\ log[i].out = "ok"

\* activatePlugin(C) of the self-dependency C -> C did not return
C30_SelfDependencyWitness ==
    /\ lastCall = <<"activatePlugin", "C">>
    /\ m_metadataDir = "cyclic"
    /\ crashed /\ lastRet = "crash"
    /\ StateOf(Machine, "C") = "Loaded"

\* ------------------------------------------------------------------ C31
\* the operations on one plugin
PluginOperations ==
    {"loadPlugin", "unloadPlugin", "initializePlugin", "activatePlugin", "deactivatePlugin"}

\* C31: a plugin whose state is Failed is still Failed after every
\* loadPlugin, unloadPlugin, initializePlugin, activatePlugin and
\* deactivatePlugin call, on whatever id.
C31_FailedIsTerminal ==
    [][lastCall'[1] \in PluginOperations
       => \A k \in Ids : StateOf(Machine, k) = "Failed" => StateAfter(k) = "Failed"]_vars

\* C31 as the code has it: a Failed plugin that is loaded stays Failed
\* through every call but a successful unloadPlugin of it, which makes it
\* NotLoaded; a Failed plugin that is not loaded stays Failed until a call
\* loads its module (loadPlugin of it, or initializePlugin of a plugin that
\* depends on it).
C31_FailedLeftOnlyByLoadOrUnload ==
    [][lastCall'[1] \in PluginOperations
       => \A k \in Ids :
            StateOf(Machine, k) = "Failed"
            => \/ StateAfter(k) = "Failed"
               \/ /\ k \notin m_plugins
                  /\ \E i \in 1..Len(log') :
                        IsLoaderCall(log'[i]) /\ log'[i].name = "load"
                        /\ log'[i].id = k /\ log'[i].out = "ok"
               \/ /\ k \in m_plugins
                  /\ lastCall' = <<"unloadPlugin", k>> /\ lastRet' = "true"
                  /\ StateAfter(k) = "NotLoaded"]_vars

\* activatePlugin(A) on a loaded, Failed A returned false at once
C31_Witness ==
    /\ lastCall = <<"activatePlugin", "A">>
    /\ lastRet = "false"
    /\ m_initialized /\ "A" \in m_plugins
    /\ StateOf(Machine, "A") = "Failed"
    /\ log = <<>>

\* ------------------------------------------------------------------ C32
\* C32: no plugin is ever in state Inactive, and a plugin whose
\* deactivation succeeded (pluginDeactivated was emitted for it) was
\* Initialized at that moment.
C32_InactiveIsUnreachable ==
    /\ \A k \in Ids : StateOf(Machine, k) # "Inactive"
    /\ \A i \in 1..Len(log) : \A k \in Ids :
          /\ log[i].kind \in {"hook", "loader", "signal"} => StateAt(log[i], k) # "Inactive"
          /\ (log[i].kind = "signal" /\ log[i].name = "pluginDeactivated" /\ log[i].id = k)
               => StateAt(log[i], k) = "Initialized"

\* deactivatePlugin(A) succeeded on an Active A
C32_Witness ==
    /\ lastCall = <<"deactivatePlugin", "A">>
    /\ lastRet = "true"
    /\ StateOf(Machine, "A") = "Initialized"
    /\ \E i \in 1..Len(log) : IsSignal(log[i], "pluginDeactivated", "A")

\* ------------------------------------------------------------------ C33
\* C33: the instance map and the handle map have the same keys, a plugin
\* with an instance and a handle is Loaded, Initialized or Active, and a
\* NotLoaded plugin has neither.
C33_HandleOnlyWhenLoadedOrLater ==
    /\ m_plugins = m_pluginLoaders
    /\ \A k \in m_plugins \cup m_pluginLoaders :
          StateOf(Machine, k) \in {"Loaded", "Initialized", "Active"}
    /\ \A k \in Ids :
          StateOf(Machine, k) = "NotLoaded" => k \notin m_plugins /\ k \notin m_pluginLoaders

\* C33 as the code has it: the same, with Failed among the states of a
\* plugin that has an instance and a handle; a plugin that is Loaded,
\* Initialized or Active has both.
C33_HandleOnlyWhenLoadedOrFailed ==
    /\ m_plugins = m_pluginLoaders
    /\ \A k \in m_plugins \cup m_pluginLoaders :
          StateOf(Machine, k) \in {"Loaded", "Initialized", "Active", "Failed"}
    /\ \A k \in Ids :
          /\ StateOf(Machine, k) = "NotLoaded" => k \notin m_plugins /\ k \notin m_pluginLoaders
          /\ StateOf(Machine, k) \in {"Loaded", "Initialized", "Active"}
               => k \in m_plugins /\ k \in m_pluginLoaders

\* the initialize hook of the loaded A failed: A is Failed and keeps its
\* instance and its handle
C33_Witness ==
    /\ lastCall = <<"initializePlugin", "A">>
    /\ lastRet = "false"
    /\ StateOf(Machine, "A") = "Failed"
    /\ "A" \in m_plugins /\ "A" \in m_pluginLoaders
    /\ \E i \in 1..Len(log) : IsHook(log[i], "initialize", "A")

\* ------------------------------------------------------------------ C34
\* the initialize hook of k has returned true and no shutdown hook of k has
\* run since, as far as the state and the log of the last call tell: k is
\* Initialized or Active, or the last call initialized k and then failed it
InitializedAndNotShutDown(k) ==
    \/ StateOf(Machine, k) \in {"Initialized", "Active"}
    \/ /\ StateOf(Machine, k) = "Failed" /\ k \in m_plugins
       /\ \E i \in 1..Len(log) : IsHook(log[i], "initialize", k) /\ log[i].out = "true"

\* positions of the log of the step's call at which the module of k was
\* released
ReleasedAt(k) ==
    {i \in 1..Len(log') : IsLoaderCall(log'[i]) /\ log'[i].name = "unload"
                            /\ log'[i].id = k /\ log'[i].out = "ok"}

\* C34: when unloadPlugin releases the module of a plugin whose initialize
\* hook has returned true, the shutdown hook of the plugin was invoked
\* earlier in that call, also when the plugin went to Failed after its
\* initialize hook because its activate hook failed.
C34_ShutdownBeforeRelease ==
    [][\A k \in Ids :
         (Called("unloadPlugin", k) /\ InitializedAndNotShutDown(k))
         => \A i \in ReleasedAt(k) : \E j \in 1..(i - 1) : IsHook(log'[j], "shutdown", k)]_vars

\* the same for the plugins that are Initialized or Active when unloadPlugin
\* is called
C34_ShutdownBeforeReleaseOfInitialized ==
    [][\A k \in Ids :
         (Called("unloadPlugin", k) /\ StateOf(Machine, k) \in {"Initialized", "Active"})
         => \A i \in ReleasedAt(k) : \E j \in 1..(i - 1) : IsHook(log'[j], "shutdown", k)]_vars

\* ------------------------------------------------------------------ C35
\* C35: a descriptor in which one of id, name, version and vendor is
\* present with a value that is not a string gives invalid metadata and is
\* never entered in the registry.
C35_NonStringFieldIsInvalid ==
    m_metadataDir \in DOMAIN TypedDirs
    => /\ ~loadFromFile(FileOf(m_metadataDir, "A")).m_isValid
       /\ "A" \notin DOMAIN m_pluginMetadata

\* the part that the code has: a descriptor whose id is not a string is
\* never entered in the registry
C35_NonStringIdIsNotRegistered ==
    (m_metadataDir \in DOMAIN TypedDirs /\ TypedDirs[m_metadataDir][1] = "id")
    => "A" \notin DOMAIN m_pluginMetadata

\* ------------------------------------------------------------------ C36
\* the step is an unloadPlugin(k) on an Initialized k whose shutdown hook
\* returned false
ShutdownHookFailedIn(k) ==
    /\ Called("unloadPlugin", k)
    /\ StateOf(Machine, k) = "Initialized"
    /\ \E i \in 1..Len(log') : IsHook(log'[i], "shutdown", k) /\ log'[i].out = "false"

\* C36: when the shutdown hook returns false in unloadPlugin(k) on an
\* Initialized k, the call returns false, k stays Initialized with its
\* instance and its handle, nothing of the registry changes, neither
\* pluginUnloaded nor pluginFailed is emitted, and unloadPlugin(k) can be
\* called again and can then succeed.
C36_ShutdownHookFailureIsRetriable ==
    [][\A k \in Ids :
         ShutdownHookFailedIn(k)
         => /\ lastRet' = "false"
            /\ StateAfter(k) = "Initialized"
            /\ k \in m_plugins' /\ k \in m_pluginLoaders'
            /\ UNCHANGED registry
            /\ \A i \in 1..Len(log') : log'[i].kind # "signal"
            /\ ~crashed'
            /\ \E r \in unloadPlugin(Machine, k) : r.ret = "true"]_vars

\* unloadPlugin(A) on the Initialized A ran the shutdown hook, which
\* returned false
C36_Witness ==
    /\ lastCall = <<"unloadPlugin", "A">>
    /\ lastRet = "false"
    /\ StateOf(Machine, "A") = "Initialized"
    /\ "A" \in m_plugins /\ "A" \in m_pluginLoaders
    /\ Len(log) = 1 /\ IsHook(log[1], "shutdown", "A") /\ log[1].out = "false"

\* ------------------------------------------------------------------ C37
\* C37: no state has one thread inside unloadPlugin, holding the manager's
\* lock and waiting for the lock of the bus in unregisterAllMessageHandlers,
\* while the other thread, inside sendMessage or broadcastMessage, holds the
\* lock of the bus and waits in its handler for the manager's lock.
C37_NoDeadlockBetweenManagerAndBus ==
    \A t \in Threads : \A u \in Threads \ {t} :
        ~ /\ threads[t].pc = "unregisterLock"
          /\ m_mutex.owner = t
          /\ busMutex.owner = u
          /\ threads[u].pc = "handlerLock"

\* ------------------------------------------------------------------ C38
\* the last call was a broadcast on the initialized bus
Broadcast == lastCall[1] = "broadcastMessage" /\ busInitialized

\* C38: a broadcast by a sender without communication.broadcast returns an
\* empty map, invokes no handler and emits nothing, whether or not the
\* sender holds communication.send; a broadcast by a sender that holds
\* communication.broadcast is made (messageBroadcast is emitted first),
\* whether or not the sender holds communication.send.
C38_BroadcastGatedOnBroadcastPermission ==
    Broadcast
    => LET sender == lastCall[2][1]
       IN  IF hasPermission(Machine, sender, "communication.broadcast")
           THEN /\ Len(log) >= 1
                /\ log[1].kind = "signal" /\ log[1].name = "messageBroadcast"
           ELSE /\ lastRet = "map" /\ lastFound = <<>>
                /\ log = <<>>

\* a sender that holds communication.broadcast and not communication.send
\* made a broadcast that reached a handler
C38_Witness ==
    /\ Broadcast
    /\ hasPermission(Machine, lastCall[2][1], "communication.broadcast")
    /\ ~hasPermission(Machine, lastCall[2][1], "communication.send")
    /\ \E i \in 1..Len(log) : log[i].kind = "handler"
    /\ DOMAIN lastFound # {}

\* a sender that holds communication.send and not communication.broadcast
\* made a broadcast while a permitted receiver had a handler for the type
C38_RefusedWitness ==
    /\ Broadcast
    /\ hasPermission(Machine, lastCall[2][1], "communication.send")
    /\ ~hasPermission(Machine, lastCall[2][1], "communication.broadcast")
    /\ handlerKey(<<"B">>, lastCall[2][2]) \in DOMAIN m_handlers
    /\ hasPermission(Machine, <<"B">>, "communication.receive")
    /\ log = <<>>

\* ------------------------------------------------------------------ C39
\* C39: in a broadcast every handler that is invoked is a registered one,
\* also after a handler invoked earlier in the broadcast removed handlers:
\* no empty handler is called, and none is left in the table.
C39_BroadcastInvokesOnlyRegisteredHandlers ==
    lastCall[1] = "broadcastMessage"
    => /\ \A i \in 1..Len(log) : log[i].kind = "handler" => log[i].id # EmptyHandler
       /\ \A k \in DOMAIN m_handlers : m_handlers[k] # EmptyHandler

====
